---------------------------- MODULE Spec2Model ----------------------------
(***************************************************************************)
(* A state-machine model of the hierarchical memory pool                   *)
(* (memory_pool.hpp / memory_pool.cpp): the dispatcher MemoryPool, the     *)
(* Small / Medium / Large / Huge tier managers, the medium coalescer       *)
(* worker and the OS shim they sit on.                                     *)
(*                                                                         *)
(* Addresses are pairs: the number of the OS range and a byte offset in    *)
(* it.  Sizes are the program's byte counts.  Each public call is one      *)
(* action; the detached coalescer thread has actions of its own.           *)
(***************************************************************************)
EXTENDS Integers, Sequences, FiniteSets, TLC

(***************************************************************************)
(* Bounds of the model.                                                    *)
(***************************************************************************)
NThreads   == 2      \* user threads
MaxAllocs  == 3      \* allocate calls in one behaviour of Spec
MaxMediumAllocs == 4 \* allocate calls in one behaviour of SpecMedium
MaxSmallAllocs == 3  \* allocate calls in one behaviour of SpecSmall
MaxAlignAllocs == 2  \* allocate calls in one behaviour of SpecAlign
MaxRouteAllocs == 2  \* allocate calls in one behaviour of SpecRoute
MaxRanges  == 2      \* OS ranges the OS grants before it refuses
MaxAgain   == 1      \* deallocate calls on an already freed pointer
MaxWrites  == 1      \* sentinel words a user writes into its payload
OsLimit    == 2000000000   \* bytes the OS maps before it refuses

Threads == 1 .. NThreads

(***************************************************************************)
(* Program constants.                                                      *)
(***************************************************************************)
CLASS_DEFAULT_ALIGNMENT == 64
DEFAULT_ALIGNMENT       == 8
MAX_ALLOWED_ALIGNMENT   == 65536
ALIGN_HEADER_BYTES      == 24
NOT_ALIGN_HEADER_BYTES  == 16
MiB                     == 1048576

SMALL_BLOCK_MAX_SIZE  == 1 * 1024 * 1024
MEDIUM_BLOCK_MAX_SIZE == 512 * 1024 * 1024
HUGE_BLOCK_THRESHOLD  == 1 * 1024 * 1024 * 1024

SmallMemoryHeaderBytes  == 64
MediumMemoryHeaderBytes == 64
LargeMemoryHeaderBytes  == 64
HugeMemoryHeaderBytes   == 64

BUCKET_COUNT == 64
BUCKET_SIZES ==
  << 8, 16, 24, 32, 40, 48, 56, 64, 72, 80, 88, 96, 104, 112, 120, 128,
     136, 144, 152, 160, 168, 176, 184, 192, 200, 208, 216, 224, 232, 240,
     248, 256, 336, 432, 560, 728, 944, 1224, 1584, 2048, 2656, 3448, 4472,
     5800, 7520, 9744, 12640, 16384, 21248, 27560, 35736, 46344, 60104,
     77936, 101072, 131072, 169984, 220440, 285872, 370728, 480776, 623488,
     808568, 1048576 >>
SMALL_CHUNK_MIN_BYTES == 1 * 1024 * 1024
SMALL_CHUNK_BLOCKS    == 128
FLUSH_THRESHOLD       == 256

MIN_BUCKET_BYTES_UNIT == MiB
LEVEL_COUNT           == 10
MERGE_QUEUE_SIZE      == 128

SMALL_MAGIC  == "SMHS"
MEDIUM_MAGIC == "MMHS"
LARGE_MAGIC  == "LMHS"
HUGE_MAGIC   == "HMHS"
NO_MAGIC     == "0"

OWNER_SMALL  == 1
OWNER_MEDIUM == 2
OWNER_LARGE  == 3
OWNER_HUGE   == 4

NULL == << 0, 0 >>

(***************************************************************************)
(* Pure functions.                                                         *)
(***************************************************************************)
Max(a, b) == IF a >= b THEN a ELSE b

RECURSIVE BitAnd(_, _)
BitAnd(a, b) ==
  IF a = 0 \/ b = 0 THEN 0
  ELSE (a % 2) * (b % 2) + 2 * BitAnd(a \div 2, b \div 2)

\* value & (value - 1) on an unsigned word: 0 - 1 is all ones, and 0 & x = 0
AndWithPredecessor(value) == IF value = 0 THEN 0 ELSE BitAnd(value, value - 1)

\* is_power_of_two: "abort" is the failed assert of the debug build
is_power_of_two(value, debug) ==
  IF ~debug
    THEN IF value # 1 \/ AndWithPredecessor(value) # 0 THEN "false" ELSE "true"
    ELSE IF value # 1 /\ AndWithPredecessor(value) = 0 THEN "true" ELSE "abort"

RECURSIVE bucket_search(_, _, _)
bucket_search(bytes, low, high) ==
  IF low < high
    THEN LET middle == (low + high) \div 2
         IN  IF bytes <= BUCKET_SIZES[middle + 1]
               THEN bucket_search(bytes, low, middle)
               ELSE bucket_search(bytes, middle + 1, high)
    ELSE low

\* a search whose comparison is strict: a size equal to an entry goes one
\* class up
calculate_bucket_index_strict(bytes) == bucket_search(bytes + 1, 0, BUCKET_COUNT - 1)

calculate_bucket_index(bytes) == bucket_search(bytes, 0, BUCKET_COUNT - 1)

RECURSIVE order_loop(_, _, _)
order_loop(need, cap, order) ==
  IF cap < need /\ order < LEVEL_COUNT - 1
    THEN order_loop(need, 2 * cap, order + 1)
    ELSE order

order_from_size(actual_byte_size) ==
  order_loop(Max(actual_byte_size, MIN_BUCKET_BYTES_UNIT), MIN_BUCKET_BYTES_UNIT, 0)

size_from_order(order) == MIN_BUCKET_BYTES_UNIT * (2 ^ order)

\* offset ^ size for a size that is one bit: the bit is flipped
XorBit(offset, size) ==
  IF (offset \div size) % 2 = 1 THEN offset - size ELSE offset + size

\* std::align: the first multiple of alignment at or after address, or -1 when
\* size bytes no longer fit in space
std_align(alignment, size, address, space) ==
  LET aligned == ((address + alignment - 1) \div alignment) * alignment
  IN  IF space < size \/ aligned - address > space - size THEN -1 ELSE aligned


(***************************************************************************)
(* State.                                                                  *)
(***************************************************************************)
VARIABLES
  debug,      \* the build: TRUE when _DEBUG is defined
  os,         \* OS shim: ranges handed out, used_bytes, net_ops
  small,      \* SmallMemoryManager: allocated_chunks, global_buckets, block headers
  tls,        \* thread_local_cache of every thread
  medium,     \* MediumMemoryManager: allocated_chunks, free_lists, mask, headers
  mq,         \* merge_queue, merge_worker_active and the running worker threads
  large,      \* LargeMemoryManager: active_blocks and headers
  huge,       \* HugeMemoryManager: active_blocks and headers
  mem,        \* the words the dispatcher keeps in front of user pointers
  pool,       \* MemoryPool: is_destructing, and whether the process has stopped
  user,       \* the callers: pointers held, pointers freed, calls made
  ret         \* what the last call did

vars == << debug, os, small, tls, medium, mq, large, huge, mem, pool, user, ret >>

(***************************************************************************)
(* OS shim (allocate_tracked / deallocate_tracked and the two process-wide *)
(* counters).  A range is {size, mapped, rel, res}: rel counts the release *)
(* calls made on it, res is its base address modulo 64 KiB.                *)
(***************************************************************************)
os_can_map(o, size) ==
  Len(o.ranges) < MaxRanges /\ size <= OsLimit - o.used_bytes

allocate_tracked(o, size, res) ==
  [ ranges     |-> Append(o.ranges, [size |-> size, mapped |-> TRUE, rel |-> 0, res |-> res]),
    used_bytes |-> o.used_bytes + size,
    net_ops    |-> o.net_ops + 1 ]

\* the range number a successful allocate_tracked(o, ..) returns
new_range(o) == Len(o.ranges) + 1

deallocate_tracked(o, r, size) ==
  IF r \in 1 .. Len(o.ranges)
    THEN IF o.ranges[r].mapped
           THEN [ ranges     |-> [o.ranges EXCEPT ![r].mapped = FALSE, ![r].rel = @ + 1],
                  used_bytes |-> o.used_bytes - size,
                  net_ops    |-> o.net_ops - 1 ]
           ELSE [o EXCEPT !.ranges[r].rel = @ + 1]
    ELSE o

RECURSIVE release_each(_, _)
release_each(o, pairs) ==
  IF pairs = << >> THEN o
  ELSE release_each(deallocate_tracked(o, Head(pairs)[1], Head(pairs)[2]), Tail(pairs))

(***************************************************************************)
(* SmallMemoryManager.  A block is << range, index >>.  A free list is a   *)
(* sequence of runs [r, lo, hi]: the blocks lo..hi of range r, each linked *)
(* to the next; a run keeps the untouched tail of a chunk in one value.    *)
(* Headers and buckets are kept for the blocks and size classes touched so *)
(* far; the others have the value construction gave them.  The next word   *)
(* of a linked block is its successor in the list; the header field next   *)
(* keeps the word a pop left behind in a block that is on no list.         *)
(***************************************************************************)
FreshSmallHeader == [magic |-> SMALL_MAGIC, is_free |-> TRUE, in_tls |-> 0, next |-> NULL]

EmptyGlobalBucket == [list |-> << >>, tag |-> 0]

small_header(s, b) == IF b \in DOMAIN s.hdr THEN s.hdr[b] ELSE FreshSmallHeader

set_small_header(s, b, h) ==
  [s EXCEPT !.hdr = [x \in (DOMAIN s.hdr) \cup {b} |-> IF x = b THEN h ELSE s.hdr[x]]]

\* global_buckets[index].head
global_bucket(s, index) ==
  IF index \in DOMAIN s.global THEN s.global[index] ELSE EmptyGlobalBucket

set_global_bucket(s, index, head) ==
  [s EXCEPT !.global = [i \in (DOMAIN s.global) \cup {index} |->
                          IF i = index THEN head ELSE s.global[i]]]

\* thread_local_cache.buckets[index]
tls_bucket(c, index) == IF index \in DOMAIN c.buckets THEN c.buckets[index] ELSE << >>

set_tls_bucket(c, index, list) ==
  [c EXCEPT !.buckets = [i \in (DOMAIN c.buckets) \cup {index} |->
                           IF i = index THEN list ELSE c.buckets[i]]]

list_head(list) == << list[1].r, list[1].lo >>

list_pop(list) ==
  IF list[1].lo < list[1].hi
    THEN << [list[1] EXCEPT !.lo = @ + 1] >> \o Tail(list)
    ELSE Tail(list)

list_push(list, b) == << [r |-> b[1], lo |-> b[2], hi |-> b[2]] >> \o list

list_blocks(list) ==
  UNION { { << list[i].r, k >> : k \in list[i].lo .. list[i].hi } : i \in 1 .. Len(list) }

\* header->next of the head of a list
list_second(list) == IF list_pop(list) = << >> THEN NULL ELSE list_head(list_pop(list))

\* a block stride for a header laid out without its padding to 64 bytes
small_block_bytes_unpadded(index) == SmallMemoryHeaderBytes - 4 + BUCKET_SIZES[index + 1]

small_block_bytes(index) == SmallMemoryHeaderBytes + BUCKET_SIZES[index + 1]

small_chunk_size(index) ==
  Max(SMALL_CHUNK_MIN_BYTES, small_block_bytes(index) * SMALL_CHUNK_BLOCKS)

\* bucket index of the chunk a block lies in (written into every header at refill)
small_index_of(s, r) == s.index[r]

\* stage 1 and 2 of SmallMemoryManager::allocate: a block from the thread's
\* bucket or from the global bucket; NULL when both are empty
small_take(s, c, index) ==
  IF tls_bucket(c, index) # << >>
    THEN LET b == list_head(tls_bucket(c, index))
         IN  [ blk |-> b,
               s   |-> set_small_header(s, b,
                         [small_header(s, b) EXCEPT !.is_free = FALSE, !.magic = SMALL_MAGIC,
                                                    !.next = list_second(tls_bucket(c, index))]),
               c   |-> set_tls_bucket(c, index, list_pop(tls_bucket(c, index))) ]
    ELSE IF global_bucket(s, index).list # << >>
    THEN LET old_head == global_bucket(s, index)
             b  == list_head(old_head.list)
             s1 == set_global_bucket(s, index,
                     [list |-> list_pop(old_head.list), tag |-> old_head.tag + 1])
         IN  [ blk |-> b,
               s   |-> set_small_header(s1, b,
                         [small_header(s1, b) EXCEPT !.is_free = FALSE, !.magic = SMALL_MAGIC,
                                                     !.next = list_second(old_head.list)]),
               c   |-> c ]
    ELSE [blk |-> NULL, s |-> s, c |-> c]

\* stage 3 and 4: the new chunk r is recorded and split, blocks 1..n-1 go to
\* the global bucket in one head update, block 0 is returned
small_refill(s, index, r) ==
  LET chunk_size  == small_chunk_size(index)
      block_count == chunk_size \div small_block_bytes(index)
      old_head    == global_bucket(s, index)
      s1 == [s EXCEPT !.chunks = Append(@, << r, chunk_size >>),
                      !.index  = [x \in (DOMAIN @) \cup {r} |-> IF x = r THEN index ELSE @[x]]]
      s2 == IF block_count > 1
              THEN set_global_bucket(s1, index,
                      [list |-> << [r |-> r, lo |-> 1, hi |-> block_count - 1] >> \o old_head.list,
                       tag  |-> old_head.tag + 1])
              ELSE s1
  IN  [ blk |-> << r, 0 >>,
        s   |-> set_small_header(s2, << r, 0 >>,
                  [FreshSmallHeader EXCEPT !.is_free = FALSE,
                     !.next = IF block_count > 1 THEN << r, 1 >> ELSE NULL]) ]

\* SmallMemoryManager::flush_thread_local_cache
small_flush(s, c) ==
  LET filled == { i \in DOMAIN c.buckets : c.buckets[i] # << >> }
      moved  == UNION { list_blocks(c.buckets[i]) : i \in filled }
  IN  [ s |-> [s EXCEPT
                 !.global = [i \in (DOMAIN @) \cup filled |->
                               IF i \in filled
                                 THEN [list |-> c.buckets[i] \o global_bucket(s, i).list,
                                       tag  |-> global_bucket(s, i).tag + 1]
                                 ELSE @[i]],
                 !.hdr = [b \in (DOMAIN @) \cup moved |->
                            IF b \in moved THEN [small_header(s, b) EXCEPT !.in_tls = 0]
                            ELSE @[b]]],
        c |-> [buckets |-> << >>, deallocation_counter |-> 0] ]

\* a deallocate that parks the block and never calls the flush
small_deallocate_no_flush(s, c, b) ==
  LET h == small_header(s, b)
  IN  IF h.is_free THEN [s |-> s, c |-> c]
      ELSE LET s1 == set_small_header(s, b, [h EXCEPT !.is_free = TRUE])
           IN  IF h.in_tls # 0 THEN [s |-> s1, c |-> c]
               ELSE IF h.magic # SMALL_MAGIC THEN [s |-> s1, c |-> c]
               ELSE LET index == small_index_of(s, b[1])
                    IN  [ s |-> set_small_header(s1, b,
                                  [magic |-> NO_MAGIC, is_free |-> TRUE, in_tls |-> 1,
                                   next |-> NULL]),
                          c |-> [set_tls_bucket(c, index, list_push(tls_bucket(c, index), b))
                                   EXCEPT !.deallocation_counter = @ + 1] ]

\* SmallMemoryManager::deallocate
small_deallocate(s, c, b) ==
  LET h == small_header(s, b)
  IN  IF h.is_free THEN [s |-> s, c |-> c]
      ELSE LET s1 == set_small_header(s, b, [h EXCEPT !.is_free = TRUE])
           IN  IF h.in_tls # 0 THEN [s |-> s1, c |-> c]
               ELSE IF h.magic # SMALL_MAGIC THEN [s |-> s1, c |-> c]
               ELSE LET index == small_index_of(s, b[1])
                        s2 == set_small_header(s1, b,
                                [magic |-> NO_MAGIC, is_free |-> TRUE, in_tls |-> 1,
                                 next |-> NULL])
                        c2 == [set_tls_bucket(c, index, list_push(tls_bucket(c, index), b))
                                 EXCEPT !.deallocation_counter = @ + 1]
                    IN  IF c2.deallocation_counter >= FLUSH_THRESHOLD
                          THEN small_flush(s2, c2)
                          ELSE [s |-> s2, c |-> c2]

\* SmallMemoryManager::release_resources, run by the thread whose cache is c
small_release_resources(s, c, o) ==
  LET f == small_flush(s, c)
  IN  [ s |-> [f.s EXCEPT !.chunks = << >>, !.global = << >>],
        c |-> f.c,
        o |-> release_each(o, s.chunks) ]


(***************************************************************************)
(* MediumMemoryManager.  A block header lives at << range, k >>, k MiB     *)
(* into the range.  Headers are memory: a header keeps what was last       *)
(* written at its address, whatever block it belonged to then, and the     *)
(* addresses never written hold the zeroes of a fresh mapping.  pad is the *)
(* last word of the 64-byte header, which no allocator code writes.        *)
(* bytes[r] is the size of the range r.                                    *)
(***************************************************************************)
ZeroMediumHeader ==
  [magic |-> NO_MAGIC, block_size |-> 0, is_free |-> FALSE, next |-> NULL, pad |-> FALSE]

medium_header(m, x) == IF x \in DOMAIN m.hdr THEN m.hdr[x] ELSE ZeroMediumHeader

set_medium_header(m, x, h) ==
  [m EXCEPT !.hdr = [y \in (DOMAIN m.hdr) \cup {x} |-> IF y = x THEN h ELSE m.hdr[y]]]

\* the address lies in a range obtained for a medium chunk
in_medium_range(m, x) == x[1] \in DOMAIN m.bytes /\ x[2] >= 0 /\ x[2] * MiB < m.bytes[x[1]]

\* the chunk record of allocated_chunks that contains the block, << >> if none
RECURSIVE find_chunk(_, _)
find_chunk(chunks, block) ==
  IF chunks = << >> THEN << >>
  ELSE IF Head(chunks)[1] = block[1] /\ block[2] * MiB < Head(chunks)[2]
         THEN Head(chunks)
         ELSE find_chunk(Tail(chunks), block)

push_block(m, header, order) ==
  [set_medium_header(m, header,
      [medium_header(m, header) EXCEPT !.next = m.fl[order].pointer, !.is_free = TRUE])
     EXCEPT !.fl[order] = [pointer |-> header, tag |-> @.tag + 1],
            !.mask = @ \cup {order}]

\* a pop that stores the new head under the tag it found
pop_block_same_tag(m, order) ==
  LET head == m.fl[order]
  IN  IF head.pointer # NULL
        THEN LET next == medium_header(m, head.pointer).next
             IN  [ blk |-> head.pointer,
                   m   |-> [m EXCEPT !.fl[order] = [pointer |-> next, tag |-> head.tag],
                                     !.mask = IF next = NULL THEN @ \ {order} ELSE @] ]
        ELSE [blk |-> NULL, m |-> [m EXCEPT !.mask = @ \ {order}]]

pop_block(m, order) ==
  LET head == m.fl[order]
  IN  IF head.pointer # NULL
        THEN LET next == medium_header(m, head.pointer).next
             IN  [ blk |-> head.pointer,
                   m   |-> [m EXCEPT !.fl[order] = [pointer |-> next, tag |-> head.tag + 1],
                                     !.mask = IF next = NULL THEN @ \ {order} ELSE @] ]
        ELSE [blk |-> NULL, m |-> [m EXCEPT !.mask = @ \ {order}]]

prepare_block(m, block, order) ==
  set_medium_header(m, block,
    [medium_header(m, block) EXCEPT !.is_free = FALSE, !.magic = MEDIUM_MAGIC,
                                    !.block_size = size_from_order(order), !.next = NULL])

\* the loop of split_to_order; a right half outside the block's range is a
\* write to memory the chunk does not own
RECURSIVE split_loop(_, _, _, _)
split_loop(m, block, current_order, to_order) ==
  IF current_order < to_order \/ m.fault THEN m
  ELSE LET half  == size_from_order(current_order)
           right == << block[1], block[2] + half \div MiB >>
       IN  IF ~in_medium_range(m, right) THEN [m EXCEPT !.fault = TRUE]
           ELSE LET m1 == set_medium_header(m, right,
                            [medium_header(m, right) EXCEPT !.block_size = half,
                               !.is_free = TRUE, !.magic = MEDIUM_MAGIC, !.next = NULL])
                    m2 == push_block(m1, right, current_order)
                    m3 == set_medium_header(m2, block,
                            [medium_header(m2, block) EXCEPT !.block_size = half])
                IN  split_loop(m3, block, current_order - 1, to_order)

split_to_order(m, block, from_order, to_order) ==
  IF to_order < 0 \/ to_order >= LEVEL_COUNT \/ to_order > from_order THEN m
  ELSE split_loop(m, block, from_order - 1, to_order)

\* the scan of MediumMemoryManager::allocate over the orders want..9
RECURSIVE scan_orders(_, _, _)
scan_orders(m, current_order, want_order) ==
  IF current_order >= LEVEL_COUNT THEN [blk |-> NULL, m |-> m]
  ELSE LET p == pop_block(m, current_order)
       IN  IF p.blk # NULL
             THEN LET m1 == IF current_order > want_order
                              THEN split_to_order(p.m, p.blk, current_order, want_order)
                              ELSE p.m
                  IN  [blk |-> p.blk, m |-> prepare_block(m1, p.blk, want_order)]
             ELSE scan_orders(p.m, current_order + 1, want_order)

\* request_new_chunk after the OS granted range r: the chunk is recorded and
\* its first header written
request_new_chunk(m, min_order, r) ==
  LET chunk_bytes == size_from_order(min_order)
      m1 == [m EXCEPT !.chunks = Append(@, << r, chunk_bytes >>),
                      !.bytes = [x \in (DOMAIN @) \cup {r} |->
                                   IF x = r THEN chunk_bytes ELSE @[x]]]
  IN  set_medium_header(m1, << r, 0 >>,
        [ZeroMediumHeader EXCEPT !.block_size = chunk_bytes, !.is_free = TRUE,
                                 !.magic = MEDIUM_MAGIC])

\* the second phase of MediumMemoryManager::allocate, with the new chunk r
medium_use_fresh(m, want_order, r) ==
  LET m1    == request_new_chunk(m, want_order, r)
      fresh == << r, 0 >>
  IN  IF m1.mask # {}
        THEN scan_orders(push_block(m1, fresh, want_order), want_order, want_order)
        ELSE LET m2 == IF want_order < LEVEL_COUNT - 1
                         THEN split_to_order(m1, fresh, want_order, want_order)
                         ELSE m1
             IN  [blk |-> fresh, m |-> prepare_block(m2, fresh, want_order)]

\* the walk of try_remove_from_freelist from current: "found", "end" (the
\* null pointer was reached) or "loop" (the walk never ends)
RECURSIVE walk_list(_, _, _, _)
walk_list(m, current, header, seen) ==
  IF current = NULL THEN "end"
  ELSE IF current = header THEN "found"
  ELSE IF current \in seen THEN "loop"
  ELSE walk_list(m, medium_header(m, current).next, header, seen \cup {current})

\* with no other thread between its load and its compare-and-swap
try_remove_from_freelist(m, header, order) ==
  LET head == m.fl[order]
  IN  IF head.pointer = header
        THEN [ok |-> "true", m |-> [m EXCEPT !.fl[order] = [pointer |-> header, tag |-> head.tag + 1]]]
        ELSE LET w == walk_list(m, head.pointer, header, {})
             IN  IF w = "found"
                   THEN [ok |-> "true",
                         m |-> [m EXCEPT !.fl[order] = [pointer |-> head.pointer, tag |-> head.tag + 1]]]
                   ELSE IF w = "loop" THEN [ok |-> "hang", m |-> m]
                   ELSE [ok |-> "false", m |-> m]

\* the merge loop of try_merge_buddy; the result names the block and order to push
RECURSIVE merge_loop(_, _, _, _)
merge_loop(m, chunk, block, order) ==
  IF order >= LEVEL_COUNT - 1 THEN [m |-> m, block |-> block, order |-> order, hang |-> FALSE]
  ELSE LET size         == size_from_order(order)
           offset       == block[2] * MiB
           buddy_offset == XorBit(offset, size)
           buddy        == << chunk[1], buddy_offset \div MiB >>
           buddy_header == medium_header(m, buddy)
       IN  IF buddy_offset + size > chunk[2]
             THEN [m |-> m, block |-> block, order |-> order, hang |-> FALSE]
           ELSE IF ~buddy_header.is_free \/ buddy_header.block_size # size
             THEN [m |-> m, block |-> block, order |-> order, hang |-> FALSE]
           ELSE LET rm == try_remove_from_freelist(m, buddy, order)
                IN  IF rm.ok = "hang"
                      THEN [m |-> m, block |-> block, order |-> order, hang |-> TRUE]
                    ELSE IF rm.ok = "false"
                      THEN [m |-> m, block |-> block, order |-> order, hang |-> FALSE]
                    ELSE LET merged == IF offset < buddy_offset THEN block ELSE buddy
                             m1 == set_medium_header(rm.m, merged,
                                     [medium_header(rm.m, merged) EXCEPT !.block_size = 2 * size])
                         IN  merge_loop(m1, chunk, merged, order + 1)

\* try_merge_buddy: [m, hang]; hang when the caller never returns
try_merge_buddy(m, block, order) ==
  LET chunk == find_chunk(m.chunks, block)
  IN  IF chunk = << >> THEN [m |-> m, hang |-> FALSE]
      ELSE LET g == merge_loop(m, chunk, block, order)
           IN  IF g.hang THEN [m |-> g.m, hang |-> TRUE]
               ELSE [m |-> push_block(g.m, g.block, g.order), hang |-> FALSE]

\* MediumMemoryManager::deallocate on the header at address header
medium_deallocate(m, q, header) ==
  LET h == medium_header(m, header)
  IN  IF h.is_free THEN [m |-> m, q |-> q]
      ELSE LET m1 == set_medium_header(m, header, [h EXCEPT !.is_free = TRUE])
           IN  IF h.magic # MEDIUM_MAGIC THEN [m |-> m1, q |-> q]
               ELSE LET order     == order_from_size(h.block_size)
                        next_tail == (q.tail + 1) % MERGE_QUEUE_SIZE
                    IN  IF next_tail = q.head
                          THEN LET g == try_merge_buddy(m1, header, order)
                               IN  [m |-> g.m, q |-> [q EXCEPT !.hung = @ \/ g.hang]]
                          ELSE [ m |-> m1,
                                 q |-> [q EXCEPT
                                     !.requests = [i \in (DOMAIN @) \cup {q.tail} |->
                                                     IF i = q.tail
                                                       THEN [block |-> header, order |-> order]
                                                       ELSE @[i]],
                                     !.tail = next_tail,
                                     !.workers = IF q.active THEN @ ELSE @ + 1,
                                     !.active = TRUE] ]

\* a release_resources that clears the lists and the registry and releases nothing
medium_release_forgets_chunks(m, o) ==
  [ m |-> [m EXCEPT !.fl = [k \in 0 .. LEVEL_COUNT - 1 |-> [pointer |-> NULL, tag |-> 0]],
                    !.chunks = << >>],
    o |-> o ]

\* MediumMemoryManager::release_resources
medium_release_resources(m, o) ==
  [ m |-> [m EXCEPT !.fl = [k \in 0 .. LEVEL_COUNT - 1 |-> [pointer |-> NULL, tag |-> 0]],
                    !.chunks = << >>],
    o |-> release_each(o, m.chunks) ]


(***************************************************************************)
(* LargeMemoryManager and HugeMemoryManager.  A block is its range; the    *)
(* header is at offset 0.                                                  *)
(***************************************************************************)
RECURSIVE remove_first(_, _)
remove_first(seq, x) ==
  IF seq = << >> THEN << >>
  ELSE IF Head(seq) = x THEN Tail(seq)
  ELSE << Head(seq) >> \o remove_first(Tail(seq), x)

\* LargeMemoryManager::allocate after the OS granted range r
large_allocate(l, bytes, r) ==
  [ active |-> Append(l.active, r),
    hdr    |-> [x \in (DOMAIN l.hdr) \cup {r} |->
                  IF x = r THEN [magic |-> LARGE_MAGIC, block_size |-> bytes] ELSE l.hdr[x]] ]

\* a deallocate that forgets the block and keeps its range mapped
large_deallocate_keeps_range(l, o, r) ==
  IF l.hdr[r].magic # LARGE_MAGIC THEN [l |-> l, o |-> o]
  ELSE [ l |-> [l EXCEPT !.hdr[r].magic = NO_MAGIC, !.active = remove_first(@, r)], o |-> o ]

large_deallocate(l, o, r) ==
  IF l.hdr[r].magic # LARGE_MAGIC THEN [l |-> l, o |-> o]
  ELSE [ l |-> [l EXCEPT !.hdr[r].magic = NO_MAGIC, !.active = remove_first(@, r)],
         o |-> deallocate_tracked(o, r, LargeMemoryHeaderBytes + l.hdr[r].block_size) ]

large_release_resources(l, o) ==
  [ l |-> [l EXCEPT !.active = << >>],
    o |-> release_each(o, [i \in 1 .. Len(l.active) |->
                             << l.active[i], LargeMemoryHeaderBytes + l.hdr[l.active[i]].block_size >>]) ]

\* HugeMemoryManager::allocate after the OS granted range r
huge_allocate(h, bytes, r) ==
  [ active |-> Append(h.active, << r, HugeMemoryHeaderBytes + bytes >>),
    hdr    |-> [x \in (DOMAIN h.hdr) \cup {r} |->
                  IF x = r THEN [magic |-> HUGE_MAGIC, block_size |-> bytes] ELSE h.hdr[x]] ]

\* a deallocate that returns the range and leaves its entry on the list
huge_deallocate_keeps_entry(h, o, r) ==
  IF h.hdr[r].magic # HUGE_MAGIC THEN [h |-> h, o |-> o]
  ELSE [ h |-> [h EXCEPT !.hdr[r].magic = NO_MAGIC],
         o |-> deallocate_tracked(o, r, HugeMemoryHeaderBytes + h.hdr[r].block_size) ]

huge_deallocate(h, o, r) ==
  IF h.hdr[r].magic # HUGE_MAGIC THEN [h |-> h, o |-> o]
  ELSE LET found == { i \in 1 .. Len(h.active) : h.active[i][1] = r }
           h1    == [h EXCEPT !.hdr[r].magic = NO_MAGIC]
       IN  IF found # {}
             THEN LET i == CHOOSE j \in found : \A k \in found : j <= k
                  IN  [ h |-> [h1 EXCEPT !.active = remove_first(@, h.active[i])],
                        o |-> deallocate_tracked(o, h.active[i][1], h.active[i][2]) ]
             ELSE [ h |-> h1,
                    o |-> deallocate_tracked(o, r, HugeMemoryHeaderBytes + h.hdr[r].block_size) ]

huge_release_resources(h, o) ==
  [ h |-> [h EXCEPT !.active = << >>], o |-> release_each(o, h.active) ]

(***************************************************************************)
(* MemoryPool, the dispatcher.  A user pointer is << range, offset >>.     *)
(* mem.route[p] is the NotAlignHeader in the 16 bytes before p, mem.env[p] *)
(* the AlignHeader in the 24 bytes before p.                               *)
(***************************************************************************)
\* a validation that clamps every alignment it rejects and never throws
validate_alignment_clamps(requested_alignment, nothrow, dbg) ==
  LET odd == requested_alignment % 2 = 1
      pow == IF odd THEN "skipped" ELSE is_power_of_two(requested_alignment, dbg)
  IN  IF pow = "abort" THEN [out |-> "abort", alignment |-> requested_alignment]
      ELSE IF odd \/ pow = "false"
        THEN [out |-> "ok",
              alignment |-> IF requested_alignment > 0 THEN DEFAULT_ALIGNMENT
                            ELSE requested_alignment]
        ELSE [out |-> "ok", alignment |-> requested_alignment]

\* step 1 of MemoryPool::allocate: the alignment the call goes on with, or
\* how it ends
validate_alignment(requested_alignment, nothrow, dbg) ==
  LET odd == requested_alignment % 2 = 1
      pow == IF odd THEN "skipped" ELSE is_power_of_two(requested_alignment, dbg)
  IN  IF pow = "abort" THEN [out |-> "abort", alignment |-> requested_alignment]
      ELSE IF odd \/ pow = "false"
        THEN IF requested_alignment > MAX_ALLOWED_ALIGNMENT /\ ~nothrow
               THEN [out |-> "bad_alloc", alignment |-> requested_alignment]
               ELSE [out |-> "ok",
                     alignment |-> IF requested_alignment > 0 THEN DEFAULT_ALIGNMENT
                                   ELSE requested_alignment]
        ELSE [out |-> "ok", alignment |-> requested_alignment]

\* a classification with the three comparisons strict: a total of exactly
\* one threshold goes one tier up
owner_of_strict(total_bytes_including_header) ==
  IF total_bytes_including_header < SMALL_BLOCK_MAX_SIZE THEN OWNER_SMALL
  ELSE IF total_bytes_including_header < MEDIUM_BLOCK_MAX_SIZE THEN OWNER_MEDIUM
  ELSE IF total_bytes_including_header < HUGE_BLOCK_THRESHOLD THEN OWNER_LARGE
  ELSE OWNER_HUGE

\* the tier of the fast path, from requested_bytes + NOT_ALIGN_HEADER_BYTES
owner_of(total_bytes_including_header) ==
  IF total_bytes_including_header <= SMALL_BLOCK_MAX_SIZE THEN OWNER_SMALL
  ELSE IF total_bytes_including_header <= MEDIUM_BLOCK_MAX_SIZE THEN OWNER_MEDIUM
  ELSE IF total_bytes_including_header <= HUGE_BLOCK_THRESHOLD THEN OWNER_LARGE
  ELSE OWNER_HUGE

header_bytes_of(owner) ==
  IF owner = OWNER_SMALL THEN SmallMemoryHeaderBytes
  ELSE IF owner = OWNER_MEDIUM THEN MediumMemoryHeaderBytes
  ELSE IF owner = OWNER_LARGE THEN LargeMemoryHeaderBytes
  ELSE HugeMemoryHeaderBytes

\* the process state the operators below transform
State ==
  [ os |-> os, small |-> small, tls |-> tls, medium |-> medium, mq |-> mq,
    large |-> large, huge |-> huge, mem |-> mem ]

\* the tier call that ends in std::bad_alloc because the OS gave no range
NoBlock == [out |-> "refused", st |-> State, blk |-> NULL, lo |-> 0, hi |-> 0]

\* SmallMemoryManager::allocate by thread t: the block, and its bytes in its range
small_allocate(st, t, bytes, grant, res) ==
  LET index == calculate_bucket_index(bytes)
      bb    == small_block_bytes(index)
      tk    == small_take(st.small, st.tls[t], index)
  IN  IF tk.blk # NULL
        THEN [ out |-> "ok", blk |-> tk.blk, lo |-> tk.blk[2] * bb, hi |-> (tk.blk[2] + 1) * bb,
               st  |-> [st EXCEPT !.small = tk.s, !.tls[t] = tk.c] ]
      ELSE IF grant /\ os_can_map(st.os, small_chunk_size(index))
        THEN LET rf == small_refill(st.small, index, new_range(st.os))
             IN  [ out |-> "ok", blk |-> rf.blk, lo |-> 0, hi |-> bb,
                   st  |-> [st EXCEPT !.small = rf.s,
                                      !.os = allocate_tracked(@, small_chunk_size(index), res)] ]
      ELSE [NoBlock EXCEPT !.st = st]

\* a medium allocate that counts the operation before it learns of the refusal
medium_allocate_counts_first(st, bytes, grant, res) ==
  LET want_order == order_from_size(bytes)
      first      == scan_orders(st.medium, want_order, want_order)
  IN  IF first.blk # NULL
        THEN [ out |-> "ok", blk |-> first.blk, lo |-> first.blk[2] * MiB,
               hi  |-> first.blk[2] * MiB + size_from_order(want_order),
               st  |-> [st EXCEPT !.medium = first.m] ]
      ELSE IF grant /\ os_can_map(st.os, size_from_order(want_order))
        THEN LET second == medium_use_fresh(first.m, want_order, new_range(st.os))
             IN  [ out |-> IF second.blk # NULL THEN "ok" ELSE "bad_alloc",
                   blk |-> second.blk, lo |-> second.blk[2] * MiB,
                   hi  |-> second.blk[2] * MiB + size_from_order(want_order),
                   st  |-> [st EXCEPT !.medium = second.m,
                                      !.os = allocate_tracked(@, size_from_order(want_order), res)] ]
      ELSE [NoBlock EXCEPT !.st = [st EXCEPT !.medium = first.m, !.os.net_ops = @ + 1]]

\* MediumMemoryManager::allocate
medium_allocate(st, bytes, grant, res) ==
  LET want_order == order_from_size(bytes)
      first      == scan_orders(st.medium, want_order, want_order)
  IN  IF first.blk # NULL
        THEN [ out |-> "ok", blk |-> first.blk, lo |-> first.blk[2] * MiB,
               hi  |-> first.blk[2] * MiB + size_from_order(want_order),
               st  |-> [st EXCEPT !.medium = first.m] ]
      ELSE IF grant /\ os_can_map(st.os, size_from_order(want_order))
        THEN LET second == medium_use_fresh(first.m, want_order, new_range(st.os))
             IN  [ out |-> IF second.blk # NULL THEN "ok" ELSE "bad_alloc",
                   blk |-> second.blk, lo |-> second.blk[2] * MiB,
                   hi  |-> second.blk[2] * MiB + size_from_order(want_order),
                   st  |-> [st EXCEPT !.medium = second.m,
                                      !.os = allocate_tracked(@, size_from_order(want_order), res)] ]
      ELSE [NoBlock EXCEPT !.st = [st EXCEPT !.medium = first.m]]

\* the fast path of MemoryPool::allocate: the tier call and the routing header
fast_path(st, t, requested_bytes, nothrow, grant, res) ==
  LET total == requested_bytes + NOT_ALIGN_HEADER_BYTES
      owner == owner_of(total)
      r     == new_range(st.os)
      route(got) ==
        LET data == << got.blk[1], got.lo + header_bytes_of(owner) >>
            p    == << data[1], data[2] + NOT_ALIGN_HEADER_BYTES >>
        IN  IF got.out # "ok"
              THEN [out |-> "bad_alloc", refused |-> got.out = "refused", st |-> got.st,
                    p |-> NULL, owner |-> owner, blk |-> NULL, lo |-> 0, hi |-> 0]
              ELSE [ out |-> "ptr", refused |-> FALSE, p |-> p, owner |-> owner,
                     blk |-> got.blk, lo |-> got.lo, hi |-> got.hi,
                     st |-> [got.st EXCEPT !.mem.route =
                               [x \in (DOMAIN @) \cup {p} |->
                                  IF x = p
                                    THEN [owner_type |-> owner,
                                          raw |-> << data[1], data[2] - header_bytes_of(owner) >>]
                                    ELSE @[x]]] ]
  IN  route(IF owner = OWNER_SMALL THEN small_allocate(st, t, total, grant, res)
            ELSE IF owner = OWNER_MEDIUM THEN medium_allocate(st, total, grant, res)
            ELSE IF owner = OWNER_LARGE
              THEN IF grant /\ os_can_map(st.os, LargeMemoryHeaderBytes + total)
                     THEN [ out |-> "ok", blk |-> << r, 0 >>, lo |-> 0,
                            hi  |-> LargeMemoryHeaderBytes + total,
                            st  |-> [st EXCEPT
                               !.large = large_allocate(@, total, r),
                               !.os = allocate_tracked(@, LargeMemoryHeaderBytes + total, res)] ]
                     ELSE [NoBlock EXCEPT !.st = st]
            ELSE IF grant /\ os_can_map(st.os, HugeMemoryHeaderBytes + total)
                     THEN [ out |-> "ok", blk |-> << r, 0 >>, lo |-> 0,
                            hi  |-> HugeMemoryHeaderBytes + total,
                            st  |-> [st EXCEPT
                               !.huge = huge_allocate(@, total, r),
                               !.os = allocate_tracked(@, HugeMemoryHeaderBytes + total, res)] ]
                     ELSE [NoBlock EXCEPT !.st = st])

\* the slow path of MemoryPool::allocate, for an alignment above the default
envelope_path(st, requested_bytes, requested_alignment, nothrow, grant, res) ==
  LET total   == requested_bytes + requested_alignment - 1 + ALIGN_HEADER_BYTES
      r       == new_range(st.os)
      fail    == [out |-> IF nothrow THEN "null" ELSE "bad_alloc", refused |-> TRUE, st |-> st,
                  p |-> NULL, owner |-> 0, blk |-> NULL, lo |-> 0, hi |-> 0]
      mapped  == [st EXCEPT !.os = allocate_tracked(@, total, res)]
      aligned == std_align(requested_alignment, requested_bytes,
                           res + ALIGN_HEADER_BYTES, total - ALIGN_HEADER_BYTES)
      p       == << r, aligned - res >>
  IN  IF ~(grant /\ os_can_map(st.os, total)) THEN fail
      ELSE IF aligned < 0
        THEN [fail EXCEPT !.refused = FALSE,
                          !.st = [mapped EXCEPT !.os = deallocate_tracked(@, r, total)]]
      ELSE [ out |-> "ptr", refused |-> FALSE, p |-> p, owner |-> 0, blk |-> << r, 0 >>,
             lo  |-> 0, hi |-> total,
             st  |-> [mapped EXCEPT !.mem.env = [x \in (DOMAIN @) \cup {p} |->
                                               IF x = p THEN [raw |-> r, size |-> total]
                                               ELSE @[x]]] ]

\* MemoryPool::allocate
pool_allocate(st, t, requested_bytes, requested_alignment, nothrow, grant, res) ==
  LET v == validate_alignment(requested_alignment, nothrow, debug)
  IN  IF v.out # "ok"
        THEN [out |-> v.out, refused |-> FALSE, st |-> st, p |-> NULL, owner |-> 0,
              blk |-> NULL, lo |-> 0, hi |-> 0]
      ELSE IF v.alignment > DEFAULT_ALIGNMENT
        THEN envelope_path(st, requested_bytes, v.alignment, nothrow, grant, res)
      ELSE fast_path(st, t, requested_bytes, nothrow, grant, res)

\* the block whose header is at a byte address of a small or medium range
small_block_at(s, address) ==
  << address[1], address[2] \div small_block_bytes(small_index_of(s, address[1])) >>

medium_block_at(address) == << address[1], address[2] \div MiB >>

\* the tag word MemoryPool::deallocate reads in the 24 bytes before p: the
\* AlignHeader of an envelope pointer, or the last word of the 64-byte tier
\* header for a fast-path pointer
sentinel_before(st, p) ==
  \/ p \in DOMAIN st.mem.env
  \/ /\ p \in DOMAIN st.mem.route
     /\ st.mem.route[p].owner_type = OWNER_MEDIUM
     /\ medium_header(st.medium, medium_block_at(st.mem.route[p].raw)).pad

\* MemoryPool::deallocate called by thread t
pool_deallocate(st, t, p) ==
  IF sentinel_before(st, p)
    THEN IF p \in DOMAIN st.mem.env
           THEN [ out |-> "envelope", owner |-> 0, blk |-> << st.mem.env[p].raw, 0 >>,
                  st  |-> [st EXCEPT !.os = deallocate_tracked(@, st.mem.env[p].raw,
                                                               st.mem.env[p].size)] ]
           ELSE \* raw and size are the words of the routing header: no range starts there
                [ out |-> "envelope", owner |-> 0, blk |-> NULL,
                  st  |-> [st EXCEPT !.os = deallocate_tracked(@, 0, 0)] ]
    ELSE LET route == st.mem.route[p]
         IN  IF route.owner_type = OWNER_SMALL
               THEN LET b == small_block_at(st.small, route.raw)
                        d == small_deallocate(st.small, st.tls[t], b)
                    IN  [ out |-> "tier", owner |-> OWNER_SMALL, blk |-> b,
                          st  |-> [st EXCEPT !.small = d.s, !.tls[t] = d.c] ]
             ELSE IF route.owner_type = OWNER_MEDIUM
               THEN LET b == medium_block_at(route.raw)
                        d == medium_deallocate(st.medium, st.mq, b)
                    IN  [ out |-> "tier", owner |-> OWNER_MEDIUM, blk |-> b,
                          st  |-> [st EXCEPT !.medium = d.m, !.mq = d.q] ]
             ELSE IF route.owner_type = OWNER_LARGE
               THEN LET d == large_deallocate(st.large, st.os, route.raw[1])
                    IN  [ out |-> "tier", owner |-> OWNER_LARGE, blk |-> route.raw,
                          st  |-> [st EXCEPT !.large = d.l, !.os = d.o] ]
             ELSE LET d == huge_deallocate(st.huge, st.os, route.raw[1])
                  IN  [ out |-> "tier", owner |-> OWNER_HUGE, blk |-> route.raw,
                        st  |-> [st EXCEPT !.huge = d.h, !.os = d.o] ]

\* MemoryPool::~MemoryPool run by thread t
pool_destroy(st, t) ==
  LET f  == small_flush(st.small, st.tls[t])
      h  == huge_release_resources(st.huge, st.os)
      l  == large_release_resources(st.large, h.o)
      m  == medium_release_resources(st.medium, l.o)
      sm == small_release_resources(f.s, f.c, m.o)
  IN  [st EXCEPT !.huge = h.h, !.large = l.l, !.medium = m.m, !.small = sm.s,
                 !.tls[t] = sm.c, !.os = sm.o]

(***************************************************************************)
(* The callers.  An allocation record keeps what allocate returned and the *)
(* block [lo, hi) of its range that the tier handed out for it.            *)
(***************************************************************************)
NoRec == [id |-> 0, p |-> NULL, s |-> 0, owner |-> 0, blk |-> NULL, lo |-> 0, hi |-> 0]

\* a name for a new record, different from the names of the live ones
fresh_id(live) == CHOOSE i \in 1 .. Cardinality(live) + 1 : \A x \in live : x.id # i

NoCall ==
  [op |-> "none", out |-> "none", p |-> NULL, s |-> 0, a |-> 0, nothrow |-> FALSE,
   refused |-> FALSE, owner |-> 0, blk |-> NULL, rec |-> NoRec]

\* two records whose blocks share bytes
Overlap(x, y) == x.blk[1] = y.blk[1] /\ x.lo < y.hi /\ y.lo < x.hi

\* the address of a pointer modulo 64 KiB
address_of(o, p) == (o.ranges[p[1]].res + p[2]) % MAX_ALLOWED_ALIGNMENT

Commit(st) ==
  /\ os' = st.os
  /\ small' = st.small
  /\ tls' = st.tls
  /\ medium' = st.medium
  /\ mq' = st.mq
  /\ large' = st.large
  /\ huge' = st.huge
  /\ mem' = st.mem

\* the SmallMemoryManager of a second MemoryPool of the process: its chunk
\* registry, its global buckets, and the allocations its callers hold
NoPeer == [chunks |-> << >>, global |-> << >>, live |-> {}]

\* a thread that is not inside MediumMemoryManager::deallocate: pc is where
\* it stands in the enqueue, tail its local cycle_queue_tail
\* no flush_thread_local_cache call of the thread is under way
IdleWalk == [pc |-> "idle", node |-> NULL]

IdleProducer == [pc |-> "idle", tail |-> 0, block |-> NULL, order |-> 0]

\* no process_merge_queue thread: pc is where the worker stands in its loop,
\* head and tail its local cycle_queue_head and cycle_queue_tail
NoWorker == [pc |-> "none", head |-> 0, tail |-> 0]

Running == pool.state = "running" /\ ~medium.fault

(***************************************************************************)
(* Actions: one per call a thread can make, and the steps of the detached  *)
(* merge worker.                                                           *)
(***************************************************************************)
InitBuild(build) ==
  /\ debug = build
  /\ os = [ranges |-> << >>, used_bytes |-> 0, net_ops |-> 0]
  /\ small = [chunks |-> << >>, index |-> << >>, hdr |-> << >>, global |-> << >>,
              peer |-> NoPeer, walk |-> [t \in Threads |-> IdleWalk]]
  /\ tls = [t \in Threads |-> [buckets |-> << >>, deallocation_counter |-> 0]]
  /\ medium = [ chunks |-> << >>, hdr |-> << >>, bytes |-> << >>, mask |-> {}, fault |-> FALSE,
                fl |-> [k \in 0 .. LEVEL_COUNT - 1 |-> [pointer |-> NULL, tag |-> 0]] ]
  /\ mq = [requests |-> << >>, head |-> 0, tail |-> 0, active |-> FALSE, workers |-> 0,
           hung |-> FALSE, prod |-> [t \in Threads |-> IdleProducer], wk |-> NoWorker,
           pending |-> {}]
  /\ large = [active |-> << >>, hdr |-> << >>]
  /\ huge = [active |-> << >>, hdr |-> << >>]
  /\ mem = [route |-> << >>, env |-> << >>]
  /\ pool = [is_destructing |-> FALSE, state |-> "running"]
  /\ user = [live |-> {}, freed |-> {}, nalloc |-> 0, nagain |-> 0, nwrites |-> 0]
  /\ ret = NoCall

Init == \E build \in BOOLEAN : InitBuild(build)

\* thread t calls allocate(size, alignment, nothrow); the OS answers a mapping
\* request with a range at residue res when grant, with a refusal otherwise
Allocate(t, Sizes, Alignments, Residues, limit) ==
  /\ Running
  /\ user.nalloc < limit
  /\ \E size \in Sizes, a \in Alignments, nothrow \in BOOLEAN, grant \in BOOLEAN, res \in Residues :
     \E g \in { pool_allocate(State, t, size, a, nothrow, grant, res) } :
       LET rec == [id |-> fresh_id(user.live), p |-> g.p, s |-> size, owner |-> g.owner,
                   blk |-> g.blk, lo |-> g.lo, hi |-> g.hi]
       IN  /\ Commit(g.st)
           /\ pool' = IF g.out = "abort" THEN [pool EXCEPT !.state = "aborted"] ELSE pool
           /\ user' = IF g.out = "ptr"
                        THEN [user EXCEPT !.live = @ \cup {rec}, !.nalloc = @ + 1,
                                          !.freed = { f \in @ : ~Overlap(f, rec) }]
                        ELSE [user EXCEPT !.nalloc = @ + 1]
           /\ ret' = [op |-> "allocate", out |-> g.out, p |-> g.p, s |-> size, a |-> a,
                      nothrow |-> nothrow, refused |-> g.refused, owner |-> g.owner,
                      blk |-> g.blk, rec |-> IF g.out = "ptr" THEN rec ELSE NoRec]
  /\ UNCHANGED debug

\* thread t calls deallocate on a pointer it holds; keep: the caller remembers
\* the pointer of a small or medium block after the call
Deallocate(t, keep) ==
  /\ Running
  /\ \E rec \in user.live :
     \E d \in { pool_deallocate(State, t, rec.p) } :
           /\ Commit(d.st)
           /\ user' = [user EXCEPT !.live = @ \ {rec},
                         !.freed = IF keep /\ rec.owner \in {OWNER_SMALL, OWNER_MEDIUM}
                                          /\ user.nagain < MaxAgain
                                     THEN @ \cup {rec} ELSE @]
           /\ ret' = [NoCall EXCEPT !.op = "deallocate", !.out = d.out, !.p = rec.p,
                                    !.owner = d.owner, !.blk = d.blk, !.rec = rec]
  /\ UNCHANGED << debug, pool >>

\* thread t calls deallocate a second time on a small or medium pointer whose
\* block no allocate has handed out since
DeallocateAgain(t) ==
  /\ Running
  /\ user.nagain < MaxAgain
  /\ \E rec \in user.freed :
     \E d \in { pool_deallocate(State, t, rec.p) } :
           /\ Commit(d.st)
           /\ user' = [user EXCEPT !.nagain = @ + 1,
                                    !.freed = IF user.nagain + 1 < MaxAgain THEN @ ELSE {}]
           /\ ret' = [NoCall EXCEPT !.op = "again", !.out = d.out, !.p = rec.p,
                                    !.owner = d.owner, !.blk = d.blk, !.rec = rec]
  /\ UNCHANGED << debug, pool >>

\* the owner of a live pointer stores the value ALIGN_SENTINEL in a word of
\* its payload; the words that matter later are those at offset 56 of a
\* MiB boundary of a medium chunk
WriteSentinel ==
  /\ Running
  /\ user.nwrites < MaxWrites
  /\ \E rec \in user.live :
       /\ rec.p[1] \in DOMAIN medium.bytes
       /\ \E k \in 0 .. (medium.bytes[rec.p[1]] \div MiB) - 1 :
            LET x == << rec.p[1], k >>
            IN  /\ k * MiB + 56 >= rec.p[2]
                /\ k * MiB + 64 <= rec.p[2] + rec.s
                /\ ~medium_header(medium, x).pad
                /\ medium' = set_medium_header(medium, x,
                                [medium_header(medium, x) EXCEPT !.pad = TRUE])
  /\ user' = [user EXCEPT !.nwrites = @ + 1]
  /\ ret' = [NoCall EXCEPT !.op = "write"]
  /\ UNCHANGED << debug, os, small, tls, mq, large, huge, mem, pool >>

\* one round of process_merge_queue with a request in the queue
WorkerStep ==
  /\ pool.state \in {"running", "destroyed"}
  /\ ~medium.fault
  /\ mq.workers > 0
  /\ ~mq.hung
  /\ mq.head # mq.tail
  /\ LET request == mq.requests[mq.head]
         g       == try_merge_buddy(medium, request.block, request.order)
     IN  /\ medium' = g.m
         /\ mq' = [mq EXCEPT !.head = (@ + 1) % MERGE_QUEUE_SIZE, !.hung = g.hang]
  /\ ret' = [NoCall EXCEPT !.op = "merge"]
  /\ UNCHANGED << debug, os, small, tls, large, huge, mem, pool, user >>

\* the round of process_merge_queue that finds the queue empty
WorkerExit ==
  /\ pool.state \in {"running", "destroyed"}
  /\ mq.workers > 0
  /\ ~mq.hung
  /\ mq.head = mq.tail
  /\ mq' = [mq EXCEPT !.active = FALSE, !.workers = @ - 1]
  /\ ret' = [NoCall EXCEPT !.op = "exit"]
  /\ UNCHANGED << debug, os, small, tls, medium, large, huge, mem, pool, user >>

\* thread t calls flush_current_thread_cache
FlushTls(t) ==
  /\ Running
  /\ LET f == small_flush(small, tls[t])
     IN  /\ small' = f.s
         /\ tls' = [tls EXCEPT ![t] = f.c]
  /\ ret' = [NoCall EXCEPT !.op = "flush"]
  /\ UNCHANGED << debug, os, medium, mq, large, huge, mem, pool, user >>

\* thread t destroys the pool
Destroy(t) ==
  /\ Running
  /\ Commit(pool_destroy(State, t))
  /\ pool' = [is_destructing |-> TRUE, state |-> "destroyed"]
  /\ ret' = [NoCall EXCEPT !.op = "destroy"]
  /\ UNCHANGED << debug, user >>

(***************************************************************************)
(* Specifications.  Spec drives the dispatcher over the four tiers and the *)
(* envelope, with request sizes on both sides of every tier threshold.     *)
(***************************************************************************)
TierSizes ==
  { 1024, SMALL_BLOCK_MAX_SIZE - 15, MEDIUM_BLOCK_MAX_SIZE - 16,
    MEDIUM_BLOCK_MAX_SIZE - 15, HUGE_BLOCK_THRESHOLD - 15 }

TierAlignments == { DEFAULT_ALIGNMENT, CLASS_DEFAULT_ALIGNMENT }

Next ==
  \/ \E t \in Threads : Allocate(t, TierSizes, TierAlignments, {0}, MaxAllocs)
  \/ \E t \in Threads : Deallocate(t, FALSE)
  \/ \E t \in Threads : FlushTls(t)
  \/ \E t \in Threads : Destroy(t)
  \/ WorkerStep
  \/ WorkerExit

Spec == Init /\ [][Next]_vars

(***************************************************************************)
(* SpecMedium drives the medium tier through reuse: blocks freed, merged,  *)
(* split and handed out again.  With the default alignment the two builds  *)
(* run the same code, so the reuse specifications take the release build.  *)
(***************************************************************************)
MediumSizes == { 1 * MiB, 3 * MiB }

NextMedium ==
  \/ \E t \in Threads : Allocate(t, MediumSizes, {DEFAULT_ALIGNMENT}, {0}, MaxMediumAllocs)
  \/ \E t \in Threads : Deallocate(t, FALSE)
  \/ WorkerStep
  \/ WorkerExit

SpecMedium == InitBuild(FALSE) /\ [][NextMedium]_vars

(***************************************************************************)
(* SpecAgain adds the second deallocate of a pointer already freed.        *)
(***************************************************************************)
NextAgain ==
  \/ \E t \in Threads : Allocate(t, MediumSizes, {DEFAULT_ALIGNMENT}, {0}, MaxMediumAllocs)
  \/ \E t \in Threads : Deallocate(t, TRUE)
  \/ \E t \in Threads : DeallocateAgain(t)
  \/ WorkerStep
  \/ WorkerExit

SpecAgain == InitBuild(FALSE) /\ [][NextAgain]_vars

(***************************************************************************)
(* SpecWrite adds the payload words written by the owners of pointers.     *)
(***************************************************************************)
NextWrite ==
  \/ \E t \in Threads : Allocate(t, MediumSizes, {DEFAULT_ALIGNMENT}, {0}, MaxAllocs)
  \/ \E t \in Threads : Deallocate(t, FALSE)
  \/ WriteSentinel
  \/ WorkerStep
  \/ WorkerExit

SpecWrite == InitBuild(FALSE) /\ [][NextWrite]_vars

(***************************************************************************)
(* SpecSmall drives the small tier through reuse, with two size classes,   *)
(* the thread caches and the second deallocate.                            *)
(***************************************************************************)
SmallSizes == { 64, 1024 }

NextSmall ==
  \/ \E t \in Threads : Allocate(t, SmallSizes, {DEFAULT_ALIGNMENT}, {0}, MaxSmallAllocs)
  \/ \E t \in Threads : Deallocate(t, TRUE)
  \/ \E t \in Threads : DeallocateAgain(t)
  \/ \E t \in Threads : FlushTls(t)
  \/ \E t \in Threads : Destroy(t)

SpecSmall == InitBuild(FALSE) /\ [][NextSmall]_vars

(***************************************************************************)
(* SpecAlign drives allocate over alignments and base addresses.           *)
(***************************************************************************)
AlignSizes == { 1024 }

AlignAlignments == { 0, 1, 6, 8, 16, 64, 4096, 65536, 131072 }

AlignResidues == { 0, 4096, 61440 }

NextAlign ==
  \/ \E t \in Threads : Allocate(t, AlignSizes, AlignAlignments, AlignResidues, MaxAlignAllocs)
  \/ \E t \in Threads : Deallocate(t, FALSE)
  \/ \E t \in Threads : Destroy(t)

SpecAlign == Init /\ [][NextAlign]_vars

(***************************************************************************)
(* SpecRoute drives the fast path over request sizes on both sides of the  *)
(* three tier thresholds, with the alignments of a default request.        *)
(***************************************************************************)
RouteSizes ==
  { 1, SMALL_BLOCK_MAX_SIZE - 16, SMALL_BLOCK_MAX_SIZE - 15,
    MEDIUM_BLOCK_MAX_SIZE - 16, MEDIUM_BLOCK_MAX_SIZE - 15,
    HUGE_BLOCK_THRESHOLD - 16, HUGE_BLOCK_THRESHOLD - 15 }

NextRoute ==
  \/ \E t \in Threads : Allocate(t, RouteSizes, {0, DEFAULT_ALIGNMENT}, {0}, MaxRouteAllocs)
  \/ \E t \in Threads : Deallocate(t, FALSE)

SpecRoute == Init /\ [][NextRoute]_vars

(***************************************************************************)
(* What the properties below look at.                                      *)
(***************************************************************************)
\* the headers reachable from a medium free-list head by next pointers, and
\* whether the chain comes back to a header already passed
RECURSIVE list_reach(_, _, _)
list_reach(m, current, seen) ==
  IF current = NULL \/ current \in seen
    THEN [set |-> seen, cyclic |-> current # NULL]
    ELSE list_reach(m, medium_header(m, current).next, seen \cup {current})

medium_list(m, order) == list_reach(m, m.fl[order].pointer, {})

\* the small free lists: every thread's bucket and the global bucket of every class
small_lists ==
  [ l \in ({"global"} \X {0} \X (DOMAIN small.global))
          \cup UNION { {"tls"} \X {t} \X (DOMAIN tls[t].buckets) : t \in Threads } |->
      IF l[1] = "global" THEN small.global[l[3]].list ELSE tls[l[2]].buckets[l[3]] ]

\* the places of the small free lists: << list, position of a run in it >>
small_runs == UNION { {l} \X (1 .. Len(small_lists[l])) : l \in DOMAIN small_lists }

SumSizes(chunks) ==
  LET RECURSIVE sum(_)
      sum(seq) == IF seq = << >> THEN 0 ELSE Head(seq)[2] + sum(Tail(seq))
  IN  sum(chunks)

IsPowerOfTwo(a) == a > 0 /\ BitAnd(a, a - 1) = 0

\* every pointer handed out has been given back and the pool still stands
Quiescent == pool.state = "running" /\ user.live = {} /\ user.nagain = 0

(***************************************************************************)
(* C1.  No block is owned by two outstanding allocations: the blocks of    *)
(* any two live pointers, each deallocated at most once, share no byte.    *)
(* The medium tier breaks it: try_remove_from_freelist leaves the buddy on *)
(* its list while try_merge_buddy pushes the merged block one order up.    *)
(***************************************************************************)
C1_NoSharedBlock ==
  user.nagain = 0 =>
    \A x \in user.live : \A y \in user.live : x.id # y.id => ~Overlap(x, y)

(***************************************************************************)
(* C2.  The user range [p, p+s) of a live allocation lies inside the block *)
(* its tier assigned, after the tier header and the routing header, and    *)
(* inside the OS range of that block.  The medium tier breaks it: the      *)
(* order is chosen for s + 16 bytes and the 64-byte header is not counted. *)
(***************************************************************************)
C2_RangeInsideBlock ==
  \A x \in user.live :
    /\ x.p[2] >= x.lo + (IF x.owner = 0 THEN ALIGN_HEADER_BYTES
                         ELSE header_bytes_of(x.owner) + NOT_ALIGN_HEADER_BYTES)
    /\ x.p[2] + x.s <= x.hi
    /\ x.p[2] + x.s <= os.ranges[x.p[1]].size

(***************************************************************************)
(* C3.  Every small or medium block is linked into at most one free-list,  *)
(* and only once: no block is in two of the small lists (thread buckets    *)
(* and global buckets), no medium header is reachable from the lists of    *)
(* two orders, and no list comes back to a header it already passed.       *)
(***************************************************************************)
C3_OneFreeList ==
  /\ \A a \in small_runs : \A b \in small_runs :
       a # b =>
         LET x == small_lists[a[1]][a[2]]
             y == small_lists[b[1]][b[2]]
         IN  ~(x.r = y.r /\ x.lo <= y.hi /\ y.lo <= x.hi)
  /\ \A j \in 0 .. LEVEL_COUNT - 1 :
       /\ ~medium_list(medium, j).cyclic
       /\ \A k \in 0 .. LEVEL_COUNT - 1 :
            j # k => medium_list(medium, j).set \cap medium_list(medium, k).set = {}

(***************************************************************************)
(* C4.  When the OS refuses the mapping an allocate call needs, the call   *)
(* returns null if nothrow is true and raises bad-allocation if nothrow is *)
(* false.  The four tiers break it: they throw std::bad_alloc themselves,  *)
(* whatever nothrow says.                                                  *)
(***************************************************************************)
C4_RefusalFollowsNothrow ==
  (ret.op = "allocate" /\ ret.refused) =>
    ret.out = (IF ret.nothrow THEN "null" ELSE "bad_alloc")

(***************************************************************************)
(* C5.  On every build, a successful allocate with a power-of-two          *)
(* alignment a above the default and at most 64 KiB returns p with         *)
(* p mod a = 0.  The release build breaks it: its is_power_of_two is false *)
(* for every such a, and the alignment is replaced by the default.         *)
(***************************************************************************)
C5_PointerAligned ==
  ( /\ ret.op = "allocate"
    /\ ret.out = "ptr"
    /\ ret.a > DEFAULT_ALIGNMENT
    /\ ret.a <= MAX_ALLOWED_ALIGNMENT
    /\ IsPowerOfTwo(ret.a) ) =>
    address_of(os, ret.p) % ret.a = 0

(***************************************************************************)
(* C6.  deallocate of a live fast-path pointer calls the deallocate of the *)
(* tier that served it, with the header of its block, and never takes the  *)
(* envelope branch, whatever users wrote into payloads; deallocate of a    *)
(* live envelope pointer releases the raw range recorded at allocation and *)
(* calls no tier.  A sentinel value written into a medium payload, at the  *)
(* word that later is the last word of a split block's header, breaks it.  *)
(***************************************************************************)
C6_DeallocateRoutes ==
  ret.op = "deallocate" =>
    IF ret.rec.owner = 0
      THEN /\ ret.out = "envelope"
           /\ ret.blk = ret.rec.blk
           /\ ~os.ranges[ret.rec.blk[1]].mapped
      ELSE /\ ret.out = "tier"
           /\ ret.owner = ret.rec.owner
           /\ ret.blk = ret.rec.blk

(***************************************************************************)
(* C7.  After a second deallocate of a small or medium pointer whose block *)
(* was not handed out again, every later allocate still returns blocks     *)
(* that are pairwise distinct among the live allocations.  The merge of    *)
(* C1 breaks it in the medium tier; the second deallocate itself changes   *)
(* no list, queue or counter (C7_SecondDeallocateIsNoOp).                  *)
(***************************************************************************)
C7_DistinctAfterSecondDeallocate ==
  user.nagain > 0 =>
    \A x \in user.live : \A y \in user.live : x.id # y.id => ~Overlap(x, y)

\* the part of C7 about the second deallocate alone: the step changes no
\* thread bucket, global bucket, order list, merge queue or flush counter
C7_SecondDeallocateIsNoOp ==
  [][ user'.nagain # user.nagain =>
        /\ tls' = tls
        /\ small'.global = small.global
        /\ medium'.fl = medium.fl
        /\ medium'.mask = medium.mask
        /\ mq' = mq ]_vars

C10_AllReleasedOnce ==
  (pool.state = "destroyed" /\ user.live = {} /\ user.nagain = 0) =>
    /\ \A r \in 1 .. Len(os.ranges) : ~os.ranges[r].mapped /\ os.ranges[r].rel = 1
    /\ os.used_bytes = 0
    /\ os.net_ops = 0

\* a pool destroyed after two ranges were obtained, one of them a chunk that
\* was still mapped, and every pointer given back
C10_Witness ==
  /\ ret.op = "destroy"
  /\ user.live = {}
  /\ user.nalloc > 0
  /\ Len(os.ranges) = 2
  /\ \E r \in 1 .. Len(os.ranges) : r \in (DOMAIN small.index) \cup (DOMAIN medium.bytes)

(***************************************************************************)
(* The medium tier with a fairly scheduled coalescer: the detached worker  *)
(* thread gets processor time as long as it has a round to run.  A caller  *)
(* remembers the medium pointers it gave back (user.freed) until their     *)
(* bytes are handed out again.                                             *)
(***************************************************************************)
NextFair ==
  \/ \E t \in Threads : Allocate(t, MediumSizes, {DEFAULT_ALIGNMENT}, {0}, MaxMediumAllocs)
  \/ \E t \in Threads : Deallocate(t, TRUE)
  \/ WorkerStep
  \/ WorkerExit

SpecFair ==
  /\ InitBuild(FALSE)
  /\ [][NextFair]_vars
  /\ WF_vars(WorkerStep)
  /\ WF_vars(WorkerExit)

\* the callers have made their last call: the allocate calls are used up and
\* no pointer is outstanding
UserDone == user.nalloc = MaxMediumAllocs /\ user.live = {}

\* x is the left and y the right half of one block of the next order, both
\* given back and not handed out since
FreedBuddies(x, y) ==
  /\ x.owner = OWNER_MEDIUM
  /\ y.owner = OWNER_MEDIUM
  /\ x.blk[1] = y.blk[1]
  /\ x.hi - x.lo = y.hi - y.lo
  /\ y.lo = x.hi
  /\ x.lo % (2 * (x.hi - x.lo)) = 0
  /\ y.hi <= medium.bytes[x.blk[1]]
  /\ order_from_size(x.hi - x.lo) < LEVEL_COUNT - 1

\* the list of the next order holds the block that starts at x and covers x and y
MergedOnNextList(x, y) ==
  /\ x.blk \in medium_list(medium, order_from_size(x.hi - x.lo) + 1).set
  /\ medium_header(medium, x.blk).block_size = y.hi - x.lo

(***************************************************************************)
(* C11.  Under fair scheduling, once two medium buddies of an order below  *)
(* 9 have both been deallocated and the callers make no further call, the  *)
(* list of the next order eventually holds one block covering both halves. *)
(***************************************************************************)
C11_BuddiesEventuallyMerged ==
  (UserDone /\ \E x \in user.freed : \E y \in user.freed : FreedBuddies(x, y))
    ~> (\A x \in user.freed : \A y \in user.freed :
          FreedBuddies(x, y) => MergedOnNextList(x, y))

\* two buddies were given back, the calls are over, the queue is drained and
\* the merged block is on the list of the next order
C11_Witness ==
  /\ UserDone
  /\ mq.head = mq.tail
  /\ ret.op = "merge"
  /\ \E x \in user.freed : \E y \in user.freed :
       FreedBuddies(x, y) /\ MergedOnNextList(x, y)

\* an alignment the interface calls invalid
InvalidAlignment(a) == a = 0 \/ ~IsPowerOfTwo(a) \/ a > MAX_ALLOWED_ALIGNMENT

\* the allocate step just taken did what the same call with the default
\* alignment does from the same state: same result, same pointer, same tier
\* and block, same state afterwards
ServedAsDefault ==
  \E t \in Threads, grant \in BOOLEAN, res \in AlignResidues :
    \E g \in { pool_allocate(State, t, ret'.s, DEFAULT_ALIGNMENT, ret'.nothrow, grant, res) } :
      /\ g.st = State'
      /\ g.out = ret'.out
      /\ g.p = ret'.p
      /\ g.owner = ret'.owner
      /\ g.blk = ret'.blk

EnvelopeAlignment(a) ==
  IsPowerOfTwo(a) /\ a > DEFAULT_ALIGNMENT /\ a <= MAX_ALLOWED_ALIGNMENT

\* the step is an allocate with such an alignment
EnvelopeAllocateStep ==
  /\ user'.nalloc = user.nalloc + 1
  /\ EnvelopeAlignment(ret'.a)

\* the step is the deallocate of a pointer such an allocate returned: the
\* pointer the call before it returned, or one the slow path recorded
EnvelopeDeallocateStep ==
  /\ ret'.op = "deallocate"
  /\ ret'.rec \in user.live
  /\ \/ ret.op = "allocate" /\ EnvelopeAlignment(ret.a) /\ ret.out = "ptr" /\ ret.p = ret'.p
     \/ ret'.p \in DOMAIN mem.env

TiersUnchanged == UNCHANGED << small, tls, medium, mq, large, huge >>

(***************************************************************************)
(* C13.  An allocate with a valid alignment above the default, and the     *)
(* deallocate of the pointer it returned, modify no TLS bucket, global     *)
(* bucket, order free-list, merge queue, chunk registry or active-block    *)
(* list; the allocate obtains at most one OS range and the deallocate      *)
(* gives that range back.                                                  *)
(***************************************************************************)
C13_EnvelopeLeavesTiersAlone ==
  [][ /\ EnvelopeAllocateStep =>
           /\ TiersUnchanged
           /\ os'.net_ops = os.net_ops + (IF ret'.out = "ptr" THEN 1 ELSE 0)
           /\ Len(os'.ranges) <= Len(os.ranges) + 1
           /\ ret'.out = "ptr" => os'.ranges[ret'.p[1]].mapped /\ ret'.p[1] = Len(os'.ranges)
      /\ EnvelopeDeallocateStep =>
           /\ TiersUnchanged
           /\ os'.net_ops = os.net_ops - 1
           /\ Len(os'.ranges) = Len(os.ranges)
           /\ os.ranges[ret'.p[1]].mapped
           /\ ~os'.ranges[ret'.p[1]].mapped ]_vars

\* a debug build has served an aligned request from a range of its own and
\* has given the range back
C13_Witness ==
  /\ debug
  /\ ret.op = "deallocate"
  /\ ret.out = "envelope"
  /\ ret.rec.owner = 0
  /\ os.net_ops = 0

\* the blocks linked on each order free-list of the medium tier
medium_lists == [k \in 0 .. LEVEL_COUNT - 1 |-> medium_list(medium, k)]

\* the allocate step just taken ended on a refusal of the OS
RefusedAllocateStep == user'.nalloc = user.nalloc + 1 /\ ret'.refused

(***************************************************************************)
(* C14.  An allocate whose OS request is refused, in any tier, leaves      *)
(* used_bytes, net_ops, every chunk registry, every active-block list and  *)
(* the contents of every free-list and TLS bucket as they were.            *)
(***************************************************************************)
C14_RefusalChangesNothing ==
  [][ RefusedAllocateStep =>
        /\ os'.used_bytes = os.used_bytes
        /\ os'.net_ops = os.net_ops
        /\ small'.chunks = small.chunks
        /\ medium'.chunks = medium.chunks
        /\ large'.active = large.active
        /\ huge'.active = huge.active
        /\ medium_lists' = medium_lists
        /\ small_lists' = small_lists ]_vars

\* the OS has refused the chunk of a medium request while a block of a lower
\* order was on a free-list and a small block was parked in a TLS bucket
C14_Witness ==
  /\ ret.op = "allocate"
  /\ ret.refused
  /\ ret.owner = OWNER_MEDIUM
  /\ \E k \in 0 .. LEVEL_COUNT - 1 : medium_lists[k].set # {}
  /\ \E t \in Threads : \E i \in DOMAIN tls[t].buckets : tls[t].buckets[i] # << >>

(***************************************************************************)
(* SpecExit lets threads end while the pool stands.  thread_local_cache is *)
(* a thread_local object of a type without a destructor: when its thread   *)
(* ends the bucket heads cease to exist and nothing else is run.  The name *)
(* t then stands for a thread started later, whose cache is empty.         *)
(***************************************************************************)
ThreadExit(t) ==
  /\ Running
  /\ tls' = [tls EXCEPT ![t] = [buckets |-> << >>, deallocation_counter |-> 0]]
  /\ ret' = [NoCall EXCEPT !.op = "thread_exit"]
  /\ UNCHANGED << debug, os, small, medium, mq, large, huge, mem, pool, user >>

NextExit ==
  \/ \E t \in Threads : Allocate(t, SmallSizes, {DEFAULT_ALIGNMENT}, {0}, MaxSmallAllocs)
  \/ \E t \in Threads : Deallocate(t, FALSE)
  \/ \E t \in Threads : ThreadExit(t)
  \/ \E t \in Threads : Destroy(t)

SpecExit == InitBuild(FALSE) /\ [][NextExit]_vars

(***************************************************************************)
(* C15.  When a thread with small blocks parked in its TLS buckets exits   *)
(* while the pool is alive, every one of those blocks is on the global     *)
(* bucket of its size class once the thread has exited.                    *)
(***************************************************************************)
C15_ExitDrainsTls ==
  [][ ret'.op = "thread_exit" =>
        \A t \in Threads : \A i \in DOMAIN tls[t].buckets :
          tls'[t] # tls[t] =>
            list_blocks(tls[t].buckets[i]) \subseteq list_blocks(global_bucket(small', i).list)
    ]_vars

(***************************************************************************)
(* SpecPointer starts from a pool that has already served a number of      *)
(* requests of one size class, so that the next request of the class gets  *)
(* a block further into the chunk, and then drives allocate over every     *)
(* size class, every medium order and the large and huge tiers.            *)
(***************************************************************************)
MaxPointerAllocs == 1

MaxPriorAllocs == 24

\* requests of one class served before the first step: the next request of
\* the class gets the block of that index in the chunk
PointerPriorAllocs == { 0, 1, 2, MaxPriorAllocs }

\* a request size for every size class MemoryPool::allocate can reach
ClassSizes == { BUCKET_SIZES[i] - NOT_ALIGN_HEADER_BYTES : i \in 2 .. BUCKET_COUNT }

\* a request size for every order a medium request can have
OrderSizes == { size_from_order(k) - NOT_ALIGN_HEADER_BYTES : k \in 1 .. LEVEL_COUNT - 1 }

PointerSizes ==
  ClassSizes \cup OrderSizes \cup { MEDIUM_BLOCK_MAX_SIZE - 15, HUGE_BLOCK_THRESHOLD - 15 }

PointerResidues == { 0, 4096 }

\* the process state of a pool just constructed
FreshState ==
  [ os |-> [ranges |-> << >>, used_bytes |-> 0, net_ops |-> 0],
    small |-> [chunks |-> << >>, index |-> << >>, hdr |-> << >>, global |-> << >>,
               peer |-> NoPeer, walk |-> [t \in Threads |-> IdleWalk]],
    tls |-> [t \in Threads |-> [buckets |-> << >>, deallocation_counter |-> 0]],
    medium |-> [ chunks |-> << >>, hdr |-> << >>, bytes |-> << >>, mask |-> {}, fault |-> FALSE,
                 fl |-> [k \in 0 .. LEVEL_COUNT - 1 |-> [pointer |-> NULL, tag |-> 0]] ],
    mq |-> [requests |-> << >>, head |-> 0, tail |-> 0, active |-> FALSE, workers |-> 0,
            hung |-> FALSE, prod |-> [t \in Threads |-> IdleProducer], wk |-> NoWorker,
            pending |-> {}],
    large |-> [active |-> << >>, hdr |-> << >>],
    huge |-> [active |-> << >>, hdr |-> << >>],
    mem |-> [route |-> << >>, env |-> << >>] ]

\* the state after n granted default-alignment requests of one size, whose
\* pointers their callers keep
RECURSIVE after_allocs(_, _, _, _)
after_allocs(st, n, size, res) ==
  IF n = 0 THEN st
  ELSE CHOOSE last \in
         { after_allocs(g.st, n - 1, size, res) :
             g \in { pool_allocate(st, 1, size, DEFAULT_ALIGNMENT, FALSE, TRUE, res) } } : TRUE

InitPointer ==
  /\ debug = FALSE
  /\ \E size \in ClassSizes, n \in PointerPriorAllocs, res \in PointerResidues :
     \E st \in { after_allocs(FreshState, n, size, res) } :
       /\ os = st.os
       /\ small = st.small
       /\ tls = st.tls
       /\ medium = st.medium
       /\ mq = st.mq
       /\ large = st.large
       /\ huge = st.huge
       /\ mem = st.mem
  /\ pool = [is_destructing |-> FALSE, state |-> "running"]
  /\ user = [live |-> {}, freed |-> {}, nalloc |-> 0, nagain |-> 0, nwrites |-> 0]
  /\ ret = NoCall

NextPointer ==
  \/ \E t \in Threads :
       Allocate(t, PointerSizes, {DEFAULT_ALIGNMENT}, PointerResidues, MaxPointerAllocs)
  \/ \E t \in Threads : Deallocate(t, FALSE)

SpecPointer == InitPointer /\ [][NextPointer]_vars

(***************************************************************************)
(* C16.  Every pointer returned by a default-alignment allocate is a       *)
(* multiple of 8, whatever the size class and the index of the block in    *)
(* its chunk, whatever the medium order, and for large and huge blocks.    *)
(***************************************************************************)
C16_DefaultPointerMultipleOf8 ==
  (ret.op = "allocate" /\ ret.out = "ptr" /\ ret.a = DEFAULT_ALIGNMENT) =>
    address_of(os, ret.p) % DEFAULT_ALIGNMENT = 0

\* a block far into a chunk of the largest size class has been handed out
C16_Witness ==
  /\ ret.op = "allocate"
  /\ ret.out = "ptr"
  /\ ret.owner = OWNER_SMALL
  /\ ret.s = SMALL_BLOCK_MAX_SIZE - NOT_ALIGN_HEADER_BYTES
  /\ ret.blk[2] = MaxPriorAllocs
  /\ address_of(os, ret.p) % DEFAULT_ALIGNMENT = 0

\* the worker step just taken has made x the header of a merged block
MergedInStep(x) ==
  medium_header(medium', x).block_size > medium_header(medium, x).block_size

\* block y starts inside the bytes the header of x claims after the step
InsideMerged(x, y) ==
  /\ y[1] = x[1]
  /\ x[2] * MiB <= y[2] * MiB
  /\ y[2] * MiB < x[2] * MiB + medium_header(medium', x).block_size

(***************************************************************************)
(* C17.  The coalescer forms a merged block only from halves that nobody   *)
(* can still hand out: after a merge no free-list of a lower order still   *)
(* links a block inside the merged one and no live allocation lies inside  *)
(* it, and the step links on a free-list no block that is allocated.       *)
(***************************************************************************)
C17_MergeOwnsBothHalves ==
  [][ ret'.op = "merge" =>
        /\ \A x \in DOMAIN medium'.hdr : MergedInStep(x) =>
             /\ \A k \in 0 .. LEVEL_COUNT - 1 : \A y \in medium_lists'[k].set :
                  InsideMerged(x, y) =>
                    y = x /\ size_from_order(k) = medium_header(medium', x).block_size
             /\ \A r \in user.live :
                  ~( /\ r.owner = OWNER_MEDIUM
                     /\ r.blk[1] = x[1]
                     /\ r.lo < x[2] * MiB + medium_header(medium', x).block_size
                     /\ x[2] * MiB < r.hi )
        /\ \A k \in 0 .. LEVEL_COUNT - 1 :
             \A y \in medium_lists'[k].set \ medium_lists[k].set :
               \A r \in user.live : r.owner = OWNER_MEDIUM => r.blk # y ]_vars

(***************************************************************************)
(* SpecRing follows the merge queue one atomic access at a time.  A medium *)
(* deallocate is four steps: the header checks and the load of tail; the   *)
(* full test and the store of the slot; the store of tail; the test of     *)
(* merge_worker_active.  The worker is four steps: the loads of head and   *)
(* tail; the second look at an empty queue; the store of false to          *)
(* merge_worker_active; the load of a request with the store of head and   *)
(* the merge.  mq.pending is history: the slots written and not yet read.  *)
(***************************************************************************)
MaxRingAllocs == 3

RingSizes == { 1 * MiB }

RingAllocate(t) ==
  /\ mq.prod[t].pc = "idle"
  /\ Allocate(t, RingSizes, {DEFAULT_ALIGNMENT}, {0}, MaxRingAllocs)

\* MemoryPool::deallocate down to the load of merge_queue.tail
RingDeallocate(t) ==
  /\ Running
  /\ mq.prod[t].pc = "idle"
  /\ \E rec \in user.live :
       /\ rec.owner = OWNER_MEDIUM
       /\ ~sentinel_before(State, rec.p)
       /\ LET header == medium_block_at(mem.route[rec.p].raw)
              h      == medium_header(medium, header)
          IN  IF h.is_free THEN UNCHANGED << medium, mq >>
              ELSE /\ medium' = set_medium_header(medium, header, [h EXCEPT !.is_free = TRUE])
                   /\ mq' = IF h.magic # MEDIUM_MAGIC THEN mq
                            ELSE [mq EXCEPT !.prod[t] =
                                    [pc |-> "loaded", tail |-> mq.tail, block |-> header,
                                     order |-> order_from_size(h.block_size)]]
       /\ user' = [user EXCEPT !.live = @ \ {rec}]
       /\ ret' = [NoCall EXCEPT !.op = "deallocate", !.out = "tier", !.p = rec.p,
                                !.owner = OWNER_MEDIUM, !.rec = rec]
  /\ UNCHANGED << debug, os, small, tls, large, huge, mem, pool >>

\* the full test, then the direct merge or the store into requests[tail]
RingStore(t) ==
  /\ Running
  /\ mq.prod[t].pc = "loaded"
  /\ LET me        == mq.prod[t]
         next_tail == (me.tail + 1) % MERGE_QUEUE_SIZE
     IN  IF next_tail = mq.head
           THEN \E g \in { try_merge_buddy(medium, me.block, me.order) } :
                  /\ medium' = g.m
                  /\ mq' = [mq EXCEPT !.prod[t] = IdleProducer, !.hung = @ \/ g.hang]
           ELSE /\ mq' = [mq EXCEPT
                     !.requests = [i \in (DOMAIN @) \cup {me.tail} |->
                                     IF i = me.tail THEN [block |-> me.block, order |-> me.order]
                                     ELSE @[i]],
                     !.pending = @ \cup {me.tail},
                     !.prod[t].pc = "stored"]
                /\ UNCHANGED medium
  /\ ret' = [NoCall EXCEPT !.op = "store"]
  /\ UNCHANGED << debug, os, small, tls, large, huge, mem, pool, user >>

\* merge_queue.tail.store( cycle_queue_next_tail )
RingPublish(t) ==
  /\ Running
  /\ mq.prod[t].pc = "stored"
  /\ mq' = [mq EXCEPT !.tail = (mq.prod[t].tail + 1) % MERGE_QUEUE_SIZE,
                      !.prod[t].pc = "published"]
  /\ ret' = [NoCall EXCEPT !.op = "publish"]
  /\ UNCHANGED << debug, os, small, tls, medium, large, huge, mem, pool, user >>

\* a deallocate that starts a worker without the test of merge_worker_active
RingSpawnUntested(t) ==
  /\ Running
  /\ mq.prod[t].pc = "published"
  /\ mq' = [mq EXCEPT !.prod[t] = IdleProducer, !.active = TRUE, !.workers = @ + 1,
                      !.wk = [NoWorker EXCEPT !.pc = "top"]]
  /\ ret' = [NoCall EXCEPT !.op = "return"]
  /\ UNCHANGED << debug, os, small, tls, medium, large, huge, mem, pool, user >>

\* the test of merge_worker_active, the start of a worker, the return
RingSpawn(t) ==
  /\ Running
  /\ mq.prod[t].pc = "published"
  /\ mq' = IF mq.active THEN [mq EXCEPT !.prod[t] = IdleProducer]
           ELSE [mq EXCEPT !.prod[t] = IdleProducer, !.active = TRUE, !.workers = @ + 1,
                           !.wk = [NoWorker EXCEPT !.pc = "top"]]
  /\ ret' = [NoCall EXCEPT !.op = "return"]
  /\ UNCHANGED << debug, os, small, tls, medium, large, huge, mem, pool, user >>

\* the top of the worker's loop: the loads of head and tail
RingWorkerLoad ==
  /\ mq.wk.pc = "top"
  /\ ~mq.hung
  /\ mq' = [mq EXCEPT !.wk = [pc   |-> IF mq.head = mq.tail THEN "recheck" ELSE "take",
                              head |-> mq.head, tail |-> mq.tail]]
  /\ ret' = [NoCall EXCEPT !.op = "load"]
  /\ UNCHANGED << debug, os, small, tls, medium, large, huge, mem, pool, user >>

\* the second look at a queue found empty
RingWorkerRecheck ==
  /\ mq.wk.pc = "recheck"
  /\ mq' = [mq EXCEPT !.wk.pc = IF mq.head = mq.tail THEN "retire" ELSE "top"]
  /\ ret' = [NoCall EXCEPT !.op = "recheck"]
  /\ UNCHANGED << debug, os, small, tls, medium, large, huge, mem, pool, user >>

\* merge_worker_active.store( false ) and the end of the thread
RingWorkerRetire ==
  /\ mq.wk.pc = "retire"
  /\ mq' = [mq EXCEPT !.wk = NoWorker, !.active = FALSE, !.workers = @ - 1]
  /\ ret' = [NoCall EXCEPT !.op = "exit"]
  /\ UNCHANGED << debug, os, small, tls, medium, large, huge, mem, pool, user >>

\* the load of requests[head], the store of head and the merge
RingWorkerTake ==
  /\ mq.wk.pc = "take"
  /\ ~medium.fault
  /\ LET request == IF mq.wk.head \in DOMAIN mq.requests THEN mq.requests[mq.wk.head]
                    ELSE [block |-> NULL, order |-> 0]
     IN  \E g \in { try_merge_buddy(medium, request.block, request.order) } :
           /\ medium' = g.m
           /\ mq' = [mq EXCEPT !.head = (mq.wk.head + 1) % MERGE_QUEUE_SIZE,
                               !.pending = @ \ {mq.wk.head},
                               !.hung = g.hang,
                               !.wk.pc = "top"]
  /\ ret' = [NoCall EXCEPT !.op = "merge"]
  /\ UNCHANGED << debug, os, small, tls, large, huge, mem, pool, user >>

NextRing ==
  \/ \E t \in Threads : RingAllocate(t)
  \/ \E t \in Threads : RingDeallocate(t)
  \/ \E t \in Threads : RingStore(t)
  \/ \E t \in Threads : RingPublish(t)
  \/ \E t \in Threads : RingSpawn(t)
  \/ RingWorkerLoad
  \/ RingWorkerRecheck
  \/ RingWorkerRetire
  \/ RingWorkerTake

SpecRing == InitBuild(FALSE) /\ [][NextRing]_vars

(***************************************************************************)
(* C18.  Every merge request written to the ring is read by the worker     *)
(* exactly once: a producer stores only into a slot that holds no unread   *)
(* request and that no other producer has stored into and not yet          *)
(* published, the tail only ever advances by one slot, and the worker      *)
(* reads only slots that hold an unread request.                           *)
(***************************************************************************)
C18_RingDeliversOnce ==
  [][ /\ \A t \in Threads :
           (mq.prod[t].pc = "loaded" /\ mq'.prod[t].pc = "stored") =>
             /\ mq.prod[t].tail \notin mq.pending
             /\ \A u \in Threads \ {t} :
                  ~(mq.prod[u].pc = "stored" /\ mq.prod[u].tail = mq.prod[t].tail)
      /\ mq'.tail # mq.tail => mq'.tail = (mq.tail + 1) % MERGE_QUEUE_SIZE
      /\ (mq.wk.pc = "take" /\ mq'.wk.pc = "top") => mq.wk.head \in mq.pending ]_vars

\* no thread is inside a medium deallocate
NoDeallocateInProgress == \A t \in Threads : mq.prod[t].pc = "idle"

(***************************************************************************)
(* C19.  Whenever the ring holds a pending merge request and no deallocate *)
(* call is in progress, a worker is active: merge_worker_active is true    *)
(* and a worker thread is running.                                         *)
(***************************************************************************)
C19_PendingHasWorker ==
  (mq.head # mq.tail /\ NoDeallocateInProgress) =>
    (mq.active /\ mq.wk.pc # "none")

\* the places of the small free lists that link block b
small_places(b) ==
  { x \in small_runs :
      /\ small_lists[x[1]][x[2]].r = b[1]
      /\ small_lists[x[1]][x[2]].lo <= b[2]
      /\ b[2] <= small_lists[x[1]][x[2]].hi }

\* block b is the block of a pointer a caller holds
HandedOut(b) == \E rec \in user.live : rec.owner = OWNER_SMALL /\ rec.blk = b

(***************************************************************************)
(* C20.  While the pool stands, every small block that has ever been       *)
(* handed out is in exactly one place: held by a caller, or linked once in *)
(* one TLS bucket or one global bucket.  A block given back by its owner   *)
(* is therefore on a free-list, where an allocate can find it again.       *)
(***************************************************************************)
C20_SmallBlockInOnePlace ==
  pool.state = "running" =>
    \A b \in DOMAIN small.hdr :
      IF HandedOut(b) THEN small_places(b) = {}
      ELSE Cardinality(small_places(b)) = 1

(***************************************************************************)
(* SpecPeer has two MemoryPool objects in the process, as with the static  *)
(* PoolAllocator of GlobalAllocator::get and the thread_local one of       *)
(* STL_Allocator::get_pool.  Each pool has its own chunk registry and      *)
(* global buckets; block headers are memory, and thread_local_cache is a   *)
(* static member, one per thread for all pools.  small.chunks and          *)
(* small.global are those of the first pool, small.peer those of the       *)
(* second; the actions of the second pool run the same code with the two   *)
(* exchanged.                                                              *)
(***************************************************************************)
MaxPeerAllocs == 2

PeerSizes == { 1024 }

small_swap(s) ==
  [s EXCEPT !.chunks = s.peer.chunks, !.global = s.peer.global,
            !.peer = [s.peer EXCEPT !.chunks = s.chunks, !.global = s.global]]

peer_view(st) == [st EXCEPT !.small = small_swap(@)]

\* thread t calls allocate on the second pool
PeerAllocate(t) ==
  /\ Running
  /\ Cardinality(small.peer.live) < MaxPeerAllocs
  /\ user.nalloc < MaxPeerAllocs + MaxPeerAllocs
  /\ \E size \in PeerSizes, grant \in BOOLEAN :
     \E g \in { pool_allocate(peer_view(State), t, size, DEFAULT_ALIGNMENT, FALSE, grant, 0) } :
       LET rec  == [id |-> fresh_id(small.peer.live), p |-> g.p, s |-> size, owner |-> g.owner,
                    blk |-> g.blk, lo |-> g.lo, hi |-> g.hi]
           back == peer_view(g.st)
       IN  /\ Commit([back EXCEPT !.small.peer.live =
                                    IF g.out = "ptr" THEN @ \cup {rec} ELSE @])
           /\ ret' = [NoCall EXCEPT !.op = "peer_allocate", !.out = g.out, !.p = g.p,
                                    !.s = size, !.a = DEFAULT_ALIGNMENT, !.owner = g.owner,
                                    !.blk = g.blk, !.refused = g.refused]
  /\ user' = [user EXCEPT !.nalloc = @ + 1]
  /\ UNCHANGED << debug, pool >>

\* thread t calls deallocate on the second pool with a pointer that pool returned
PeerDeallocate(t) ==
  /\ Running
  /\ \E rec \in small.peer.live :
     \E d \in { pool_deallocate(peer_view(State), t, rec.p) } :
       /\ Commit([peer_view(d.st) EXCEPT !.small.peer.live = @ \ {rec}])
       /\ ret' = [NoCall EXCEPT !.op = "peer_deallocate", !.out = d.out, !.p = rec.p,
                                !.owner = d.owner, !.blk = d.blk, !.rec = rec]
  /\ UNCHANGED << debug, pool, user >>

\* thread t calls flush_current_thread_cache on the second pool
PeerFlush(t) ==
  /\ Running
  /\ \E f \in { small_flush(small_swap(small), tls[t]) } :
       /\ small' = small_swap(f.s)
       /\ tls' = [tls EXCEPT ![t] = f.c]
  /\ ret' = [NoCall EXCEPT !.op = "peer_flush"]
  /\ UNCHANGED << debug, os, medium, mq, large, huge, mem, pool, user >>

NextPeer ==
  \/ \E t \in Threads : Allocate(t, PeerSizes, {DEFAULT_ALIGNMENT}, {0}, MaxPeerAllocs + MaxPeerAllocs)
  \/ \E t \in Threads : Deallocate(t, FALSE)
  \/ \E t \in Threads : FlushTls(t)
  \/ \E t \in Threads : Destroy(t)
  \/ \E t \in Threads : PeerAllocate(t)
  \/ \E t \in Threads : PeerDeallocate(t)
  \/ \E t \in Threads : PeerFlush(t)

SpecPeer == InitBuild(FALSE) /\ [][NextPeer]_vars

\* the ranges the second pool has registered as its chunks
PeerRanges == { small.peer.chunks[i][1] : i \in DOMAIN small.peer.chunks }

(***************************************************************************)
(* C21.  With two pools used by the same threads, every small block the    *)
(* second pool has handed out or links in its global buckets lies in a     *)
(* chunk of the second pool, and the memory behind a pointer obtained from *)
(* the second pool stays mapped when the first pool is destroyed.          *)
(***************************************************************************)
C21_PoolsKeepTheirBlocks ==
  /\ \A rec \in small.peer.live : rec.blk[1] \in PeerRanges
  /\ \A i \in DOMAIN small.peer.global :
       \A b \in list_blocks(small.peer.global[i].list) : b[1] \in PeerRanges
  /\ \A rec \in small.peer.live : os.ranges[rec.blk[1]].mapped

(***************************************************************************)
(* C22.  For every thread and every size class, the block at the head of   *)
(* a non-empty TLS bucket has in_tls set and is_free set.                  *)
(***************************************************************************)
C22_TlsHeadIsParked ==
  \A t \in Threads : \A i \in DOMAIN tls[t].buckets :
    tls[t].buckets[i] # << >> =>
      /\ small_header(small, list_head(tls[t].buckets[i])).in_tls = 1
      /\ small_header(small, list_head(tls[t].buckets[i])).is_free

(***************************************************************************)
(* flush_thread_local_cache in its steps.  One step takes a bucket of the  *)
(* thread and links its chain in front of the global bucket; the loop that *)
(* clears in_tls runs afterwards, one node a step, following the next      *)
(* words as they are in memory by then.  moved is the chain the call took  *)
(* from the thread's bucket.                                               *)
(***************************************************************************)
MaxFlushAllocs == 3
FlushSizes == { 9000 }

\* header->next of block b: its successor in the list that links it, or the
\* word its last pop left
list_holds(list, b) ==
  \E j \in 1 .. Len(list) : list[j].r = b[1] /\ list[j].lo <= b[2] /\ b[2] <= list[j].hi

list_next(list, b) ==
  LET j == CHOOSE j \in 1 .. Len(list) :
             list[j].r = b[1] /\ list[j].lo <= b[2] /\ b[2] <= list[j].hi
  IN  IF b[2] < list[j].hi THEN << b[1], b[2] + 1 >>
      ELSE IF j < Len(list) THEN << list[j + 1].r, list[j + 1].lo >>
      ELSE NULL

small_next(s, caches, b) ==
  LET lists == { s.global[i].list : i \in DOMAIN s.global }
                 \cup UNION { { caches[t].buckets[i] : i \in DOMAIN caches[t].buckets } :
                              t \in DOMAIN caches }
      holders == { l \in lists : list_holds(l, b) }
  IN  IF holders = {} THEN small_header(s, b).next
      ELSE list_next(CHOOSE l \in holders : TRUE, b)

\* thread t calls allocate or deallocate between two flush calls
FlushAllocate(t) ==
  /\ small.walk[t].pc = "idle"
  /\ Allocate(t, FlushSizes, {DEFAULT_ALIGNMENT}, {0}, MaxFlushAllocs)

FlushDeallocate(t) ==
  /\ small.walk[t].pc = "idle"
  /\ Deallocate(t, FALSE)

\* the exchange of the next filled bucket and the push of its chain on the
\* global bucket; with no bucket left the call resets the counter and returns
FlushLink(t) ==
  /\ Running
  /\ small.walk[t].pc \in {"idle", "scan"}
  /\ LET filled == { i \in DOMAIN tls[t].buckets : tls[t].buckets[i] # << >> }
     IN  IF filled = {}
           THEN /\ tls' = [tls EXCEPT ![t].deallocation_counter = 0]
                /\ small' = [small EXCEPT !.walk[t] = IdleWalk]
           ELSE \E i \in { j \in filled : \A k \in filled : j <= k } :
                  /\ tls' = [tls EXCEPT ![t] = set_tls_bucket(@, i, << >>)]
                  /\ small' = [set_global_bucket(small, i,
                                  [list |-> tls[t].buckets[i] \o global_bucket(small, i).list,
                                   tag  |-> global_bucket(small, i).tag + 1])
                                EXCEPT !.walk[t] = [pc |-> "walk",
                                                    node |-> list_head(tls[t].buckets[i]),
                                                    moved |-> list_blocks(tls[t].buckets[i])]]
  /\ ret' = [NoCall EXCEPT !.op = "flush_link"]
  /\ UNCHANGED << debug, os, medium, mq, large, huge, mem, pool, user >>

\* node->in_tls = 0; node = node->next
FlushClear(t) ==
  /\ Running
  /\ small.walk[t].pc = "walk"
  /\ \E node \in { small.walk[t].node } :
     \E s1 \in { IF small_header(small, node).in_tls = 0 THEN small
                 ELSE set_small_header(small, node,
                        [small_header(small, node) EXCEPT !.in_tls = 0]) } :
       small' = [s1 EXCEPT !.walk[t] =
                   IF small_next(s1, tls, node) = NULL
                     THEN [pc |-> "scan", node |-> NULL]
                     ELSE [@ EXCEPT !.node = small_next(s1, tls, node)]]
  /\ ret' = [NoCall EXCEPT !.op = "flush_clear"]
  /\ UNCHANGED << debug, os, tls, medium, mq, large, huge, mem, pool, user >>

NextFlush ==
  \E t \in Threads :
    \/ FlushAllocate(t)
    \/ FlushDeallocate(t)
    \/ FlushLink(t)
    \/ FlushClear(t)

SpecFlush == InitBuild(FALSE) /\ [][NextFlush]_vars

(***************************************************************************)
(* C23.  For every order k, every block reachable from the head of the     *)
(* order-k free list by next pointers has the recorded size 1 MiB << k.    *)
(***************************************************************************)
C23_ListedBlocksHaveOrderSize ==
  \A k \in 0 .. LEVEL_COUNT - 1 : \A b \in medium_lists[k].set :
    medium_header(medium, b).block_size = size_from_order(k)

(***************************************************************************)
(* C24.  Every block linked into a small TLS bucket, a small global bucket *)
(* or a medium order free list has is_free set and carries the magic word  *)
(* of its tier.                                                            *)
(***************************************************************************)
SmallListedParked ==
  \A x \in small_runs :
    \A b \in list_blocks(<< small_lists[x[1]][x[2]] >>) :
      small_header(small, b).is_free /\ small_header(small, b).magic = SMALL_MAGIC

MediumListedParked ==
  \A k \in 0 .. LEVEL_COUNT - 1 : \A b \in medium_lists[k].set :
    medium_header(medium, b).is_free /\ medium_header(medium, b).magic = MEDIUM_MAGIC

C24_ListedBlocksFreeWithMagic == SmallListedParked /\ MediumListedParked

(***************************************************************************)
(* pop_block in its steps.  An allocate whose pop takes the last block of  *)
(* its order first swings the head of the list and clears the bit of the   *)
(* order in a later step; the calls of the other threads and the worker    *)
(* run between the two.  mq.prod[t] holds the position of thread t.        *)
(***************************************************************************)
MaxMaskAllocs == 3
MaskSizes == { 1 * MiB }

MaskAllocate(t) ==
  /\ mq.prod[t].pc = "idle"
  /\ Allocate(t, MaskSizes, {DEFAULT_ALIGNMENT}, {0}, MaxMaskAllocs)

MaskDeallocate(t) ==
  /\ mq.prod[t].pc = "idle"
  /\ Deallocate(t, FALSE)

\* the compare-and-swap of pop_block that leaves next.pointer == nullptr
MaskPop(t) ==
  /\ Running
  /\ mq.prod[t].pc = "idle"
  /\ user.nalloc < MaxMaskAllocs
  /\ \E size \in MaskSizes :
     \E k \in { order_from_size(size + NOT_ALIGN_HEADER_BYTES) } :
       /\ medium.fl[k].pointer # NULL
       /\ medium_header(medium, medium.fl[k].pointer).next = NULL
       /\ medium' = [medium EXCEPT !.fl[k] = [pointer |-> NULL, tag |-> @.tag + 1]]
       /\ mq' = [mq EXCEPT !.prod[t] = [pc |-> "popped", tail |-> 0,
                                        block |-> medium.fl[k].pointer, order |-> k]]
  /\ ret' = [NoCall EXCEPT !.op = "pop"]
  /\ UNCHANGED << debug, os, small, tls, large, huge, mem, pool, user >>

\* the rest of that call: the bit of the order is cleared, prepare_block,
\* the routing header, the pointer goes to the caller
MaskClear(t) ==
  /\ Running
  /\ mq.prod[t].pc = "popped"
  /\ \E size \in MaskSizes, nothrow \in BOOLEAN :
     \E k \in { mq.prod[t].order } \cap { order_from_size(size + NOT_ALIGN_HEADER_BYTES) } :
     \E b \in { mq.prod[t].block } :
     \E p \in { << b[1], b[2] * MiB + MediumMemoryHeaderBytes + NOT_ALIGN_HEADER_BYTES >> } :
     \E rec \in { [id |-> fresh_id(user.live), p |-> p, s |-> size, owner |-> OWNER_MEDIUM,
                   blk |-> b, lo |-> b[2] * MiB, hi |-> b[2] * MiB + size_from_order(k)] } :
       /\ medium' = prepare_block([medium EXCEPT !.mask = @ \ {k}], b, k)
       /\ mem' = [mem EXCEPT !.route =
                    [x \in (DOMAIN @) \cup {p} |->
                       IF x = p THEN [owner_type |-> OWNER_MEDIUM,
                                      raw |-> << b[1], b[2] * MiB >>]
                       ELSE @[x]]]
       /\ user' = [user EXCEPT !.live = @ \cup {rec}, !.nalloc = @ + 1,
                               !.freed = { f \in @ : ~Overlap(f, rec) }]
       /\ ret' = [op |-> "allocate", out |-> "ptr", p |-> p, s |-> size,
                  a |-> DEFAULT_ALIGNMENT, nothrow |-> nothrow, refused |-> FALSE,
                  owner |-> OWNER_MEDIUM, blk |-> b, rec |-> rec]
  /\ mq' = [mq EXCEPT !.prod[t] = IdleProducer]
  /\ UNCHANGED << debug, os, small, tls, large, huge, pool >>

NextMask ==
  \/ \E t \in Threads : MaskAllocate(t)
  \/ \E t \in Threads : MaskDeallocate(t)
  \/ \E t \in Threads : MaskPop(t)
  \/ \E t \in Threads : MaskClear(t)
  \/ WorkerStep
  \/ WorkerExit

SpecMask == InitBuild(FALSE) /\ [][NextMask]_vars

(***************************************************************************)
(* C25.  Whenever no push or pop on an order is in progress, a clear bit   *)
(* of the level bitmask implies that the free list of that order is empty. *)
(***************************************************************************)
C25_ClearBitMeansEmptyList ==
  (\A t \in Threads : mq.prod[t].pc = "idle") =>
    \A k \in 0 .. LEVEL_COUNT - 1 :
      k \notin medium.mask => medium.fl[k].pointer = NULL

(***************************************************************************)
(* SpecChain follows one caller of the medium tier (the tier keeps no      *)
(* per-thread state) through enough calls for a header that sits on the    *)
(* lists of two orders to chain the two lists together.  The worker, once  *)
(* started, is not scheduled for its exit before the last request.         *)
(***************************************************************************)
MaxChainAllocs == 7
ChainCallers == { 1 }

NextChain ==
  \/ \E t \in ChainCallers : Allocate(t, MediumSizes, {DEFAULT_ALIGNMENT}, {0}, MaxChainAllocs)
  \/ \E t \in ChainCallers : Deallocate(t, FALSE)
  \/ WorkerStep

SpecChain == InitBuild(FALSE) /\ [][NextChain]_vars

(***************************************************************************)
(* C26.  Every medium block that allocate returns for target order k, and  *)
(* every block a split or a merge has pushed on the order-k free list (a   *)
(* listed header that records the size of the order), starts at an offset  *)
(* of its chunk that is a multiple of 1 MiB << k and lies wholly inside    *)
(* one recorded chunk.                                                     *)
(***************************************************************************)
AlignedInChunk(block, order) ==
  /\ find_chunk(medium.chunks, block) # << >>
  /\ (block[2] * MiB) % size_from_order(order) = 0
  /\ block[2] * MiB + size_from_order(order) <= find_chunk(medium.chunks, block)[2]

ReturnedMedium == ret.op = "allocate" /\ ret.out = "ptr" /\ ret.owner = OWNER_MEDIUM

C26_MediumBlocksAlignedInChunk ==
  pool.state = "running" =>
    /\ ReturnedMedium =>
         AlignedInChunk(ret.blk, order_from_size(ret.s + NOT_ALIGN_HEADER_BYTES))
    /\ \A k \in 0 .. LEVEL_COUNT - 1 : \A b \in medium_lists[k].set :
         medium_header(medium, b).block_size = size_from_order(k) => AlignedInChunk(b, k)

(***************************************************************************)
(* C27.  At most one coalescer worker consumes the ring at any time, also  *)
(* while deallocators publish requests next to a worker about to exit.     *)
(***************************************************************************)
C27_AtMostOneWorker ==
  /\ mq.workers <= 1
  /\ mq.workers = 1 <=> mq.wk.pc # "none"
  /\ mq.workers = 1 => mq.active

\* a deallocate has published its request and is about to test the flag
\* while the worker has found the ring empty twice and is about to retire
C27_Witness ==
  /\ mq.wk.pc = "retire"
  /\ \E t \in Threads : mq.prod[t].pc = "published"
  /\ mq.workers = 1

(***************************************************************************)
(* The merge on a full ring, in steps.  A deallocate that finds            *)
(* next_tail == head calls try_merge_buddy itself; the worker calls it     *)
(* after it has stored the new head.  Each call is entered in one step and *)
(* takes effect in a later one.                                            *)
(***************************************************************************)
InlineFull(t) ==
  mq.prod[t].pc = "loaded" /\ (mq.prod[t].tail + 1) % MERGE_QUEUE_SIZE = mq.head

\* the store into requests[tail] of a deallocate that found room
InlineStore(t) == ~InlineFull(t) /\ RingStore(t)

\* the deallocate found the ring full and enters try_merge_buddy
InlineBegin(t) ==
  /\ Running
  /\ InlineFull(t)
  /\ mq' = [mq EXCEPT !.prod[t].pc = "inline"]
  /\ ret' = [NoCall EXCEPT !.op = "full"]
  /\ UNCHANGED << debug, os, small, tls, medium, large, huge, mem, pool, user >>

InlineMerge(t) ==
  /\ Running
  /\ mq.prod[t].pc = "inline"
  /\ \E g \in { try_merge_buddy(medium, mq.prod[t].block, mq.prod[t].order) } :
       /\ medium' = g.m
       /\ mq' = [mq EXCEPT !.prod[t] = IdleProducer, !.hung = @ \/ g.hang]
  /\ ret' = [NoCall EXCEPT !.op = "inline_merge"]
  /\ UNCHANGED << debug, os, small, tls, large, huge, mem, pool, user >>

\* the worker loads requests[head], stores the new head and enters try_merge_buddy
InlineWorkerTake ==
  /\ mq.wk.pc = "take"
  /\ ~medium.fault
  /\ LET request == IF mq.wk.head \in DOMAIN mq.requests THEN mq.requests[mq.wk.head]
                    ELSE [block |-> NULL, order |-> 0]
     IN  mq' = [mq EXCEPT !.head = (mq.wk.head + 1) % MERGE_QUEUE_SIZE,
                          !.pending = @ \ {mq.wk.head},
                          !.wk = [pc |-> "merge", head |-> mq.wk.head, tail |-> mq.wk.tail,
                                  block |-> request.block, order |-> request.order]]
  /\ ret' = [NoCall EXCEPT !.op = "take"]
  /\ UNCHANGED << debug, os, small, tls, medium, large, huge, mem, pool, user >>

InlineWorkerMerge ==
  /\ mq.wk.pc = "merge"
  /\ ~medium.fault
  /\ \E g \in { try_merge_buddy(medium, mq.wk.block, mq.wk.order) } :
       /\ medium' = g.m
       /\ mq' = [mq EXCEPT !.hung = g.hang,
                           !.wk = [pc |-> "top", head |-> mq.wk.head, tail |-> mq.wk.tail]]
  /\ ret' = [NoCall EXCEPT !.op = "merge"]
  /\ UNCHANGED << debug, os, small, tls, large, huge, mem, pool, user >>

NextInline ==
  \/ \E t \in Threads : RingAllocate(t)
  \/ \E t \in Threads : RingDeallocate(t)
  \/ \E t \in Threads : InlineStore(t)
  \/ \E t \in Threads : InlineBegin(t)
  \/ \E t \in Threads : InlineMerge(t)
  \/ \E t \in Threads : RingPublish(t)
  \/ \E t \in Threads : RingSpawn(t)
  \/ RingWorkerLoad
  \/ RingWorkerRecheck
  \/ RingWorkerRetire
  \/ InlineWorkerTake
  \/ InlineWorkerMerge

SpecInline == InitBuild(FALSE) /\ [][NextInline]_vars

(***************************************************************************)
(* C28.  While a deallocating thread runs the merge of a full ring, no     *)
(* other thread, worker or deallocator, runs a buddy merge on the same     *)
(* free lists.                                                             *)
(***************************************************************************)
C28_InlineMergeRunsAlone ==
  \A t \in Threads :
    mq.prod[t].pc = "inline" =>
      /\ mq.wk.pc # "merge"
      /\ \A u \in Threads \ {t} : mq.prod[u].pc # "inline"

(***************************************************************************)
(* The medium chunk registry.  request_new_chunk holds chunk_mutex from    *)
(* its first line to its return and appends to allocated_chunks in between;*)
(* try_merge_buddy walks allocated_chunks with no lock.  A thread at       *)
(* "append" is inside request_new_chunk; a worker at "merge" or a thread   *)
(* at "inline" is inside try_merge_buddy.                                  *)
(***************************************************************************)
MaxRegistryAllocs == 3

\* the threads that hold chunk_mutex of the medium tier
MutexHolders == { t \in Threads : mq.prod[t].pc = "append" }

\* an allocate call taken in one step; it may need chunk_mutex
RegistryAllocate(t) ==
  /\ MutexHolders = {}
  /\ mq.prod[t].pc = "idle"
  /\ Allocate(t, RingSizes, {DEFAULT_ALIGNMENT}, {0}, MaxRegistryAllocs)

\* an allocate that finds every list from its order up empty and enters
\* request_new_chunk: the lock is taken and the OS maps the chunk
RegistryLock(t) ==
  /\ Running
  /\ MutexHolders = {}
  /\ mq.prod[t].pc = "idle"
  /\ user.nalloc < MaxRegistryAllocs
  /\ \E size \in RingSizes :
     \E k \in { order_from_size(size + NOT_ALIGN_HEADER_BYTES) } :
       /\ \A j \in k .. LEVEL_COUNT - 1 : medium.fl[j].pointer = NULL
       /\ os_can_map(os, size_from_order(k))
       /\ medium' = [medium EXCEPT !.mask = @ \ (k .. LEVEL_COUNT - 1)]
       /\ mq' = [mq EXCEPT !.prod[t] = [pc |-> "append", tail |-> 0, block |-> NULL,
                                        order |-> k]]
  /\ ret' = [NoCall EXCEPT !.op = "lock"]
  /\ UNCHANGED << debug, os, small, tls, large, huge, mem, pool, user >>

\* the emplace_back, the unlock and the rest of the allocate call
RegistryAppend(t) ==
  /\ Running
  /\ mq.prod[t].pc = "append"
  /\ \E size \in RingSizes, nothrow \in BOOLEAN :
     \E k \in { mq.prod[t].order } \cap { order_from_size(size + NOT_ALIGN_HEADER_BYTES) } :
     \E second \in { medium_use_fresh(medium, k, new_range(os)) } :
     \E b \in { second.blk } :
     \E p \in { << b[1], b[2] * MiB + MediumMemoryHeaderBytes + NOT_ALIGN_HEADER_BYTES >> } :
     \E rec \in { [id |-> fresh_id(user.live), p |-> p, s |-> size, owner |-> OWNER_MEDIUM,
                   blk |-> b, lo |-> b[2] * MiB, hi |-> b[2] * MiB + size_from_order(k)] } :
       /\ medium' = second.m
       /\ os' = allocate_tracked(os, size_from_order(k), 0)
       /\ mem' = [mem EXCEPT !.route =
                    [x \in (DOMAIN @) \cup {p} |->
                       IF x = p THEN [owner_type |-> OWNER_MEDIUM,
                                      raw |-> << b[1], b[2] * MiB >>]
                       ELSE @[x]]]
       /\ user' = [user EXCEPT !.live = @ \cup {rec}, !.nalloc = @ + 1,
                               !.freed = { f \in @ : ~Overlap(f, rec) }]
       /\ ret' = [op |-> "allocate", out |-> "ptr", p |-> p, s |-> size,
                  a |-> DEFAULT_ALIGNMENT, nothrow |-> nothrow, refused |-> FALSE,
                  owner |-> OWNER_MEDIUM, blk |-> b, rec |-> rec]
  /\ mq' = [mq EXCEPT !.prod[t] = IdleProducer]
  /\ UNCHANGED << debug, small, tls, large, huge, pool >>

\* the worker's try_merge_buddy.  Its walk over allocated_chunks while a
\* thread appends is a data race on the vector: the walk sees the chunks or
\* misses them, and a block whose chunk is missed is dropped.
RegistryWorkerMerge ==
  /\ mq.wk.pc = "merge"
  /\ ~medium.fault
  /\ \E missed \in IF MutexHolders = {} THEN {FALSE} ELSE BOOLEAN :
     \E g \in { IF missed THEN [m |-> medium, hang |-> FALSE]
                ELSE try_merge_buddy(medium, mq.wk.block, mq.wk.order) } :
       /\ medium' = g.m
       /\ mq' = [mq EXCEPT !.hung = g.hang,
                           !.wk = [pc |-> "top", head |-> mq.wk.head, tail |-> mq.wk.tail]]
  /\ ret' = [NoCall EXCEPT !.op = "merge"]
  /\ UNCHANGED << debug, os, small, tls, large, huge, mem, pool, user >>

NextRegistry ==
  \/ \E t \in Threads : RegistryAllocate(t)
  \/ \E t \in Threads : RegistryLock(t)
  \/ \E t \in Threads : RegistryAppend(t)
  \/ \E t \in Threads : RingDeallocate(t)
  \/ \E t \in Threads : InlineStore(t)
  \/ \E t \in Threads : InlineBegin(t)
  \/ \E t \in Threads : InlineMerge(t)
  \/ \E t \in Threads : RingPublish(t)
  \/ \E t \in Threads : RingSpawn(t)
  \/ RingWorkerLoad
  \/ RingWorkerRecheck
  \/ RingWorkerRetire
  \/ InlineWorkerTake
  \/ RegistryWorkerMerge

SpecRegistry == InitBuild(FALSE) /\ [][NextRegistry]_vars

\* the threads inside a walk over allocated_chunks of the medium tier
RegistryReaders ==
  { t \in Threads : mq.prod[t].pc = "inline" } \cup (IF mq.wk.pc = "merge" THEN {0} ELSE {})

\* no walk over the registry is under way while a thread is appending to it
NoReadDuringAppend == RegistryReaders = {} \/ MutexHolders = {}

(***************************************************************************)
(* C29.  Every read or write of the medium chunk registry happens while    *)
(* the thread holds chunk_mutex; in particular no thread reads the         *)
(* registry while another appends to it.                                   *)
(***************************************************************************)
C29_RegistryUnderMutex ==
  /\ RegistryReaders \subseteq MutexHolders
  /\ NoReadDuringAppend

(***************************************************************************)
(* C30.  Pool destruction does not release the medium chunks while a       *)
(* coalescer worker is active or merge requests are pending: once the      *)
(* chunks are released, no worker is left to touch a medium header, free   *)
(* list, the merge queue or the chunk registry.                            *)
(***************************************************************************)
C30_DestroyWaitsForWorker ==
  pool.state = "destroyed" => (mq.workers = 0 /\ mq.head = mq.tail)

\* the worker handles a request after the chunks were released
C30_Witness ==
  /\ pool.state = "destroyed"
  /\ ret.op = "merge"

(***************************************************************************)
(* The second phase of MediumMemoryManager::allocate, step by step.  When  *)
(* the level mask is not empty the fresh chunk is not kept by the caller:  *)
(* it is pushed on the list of the wanted order and the scan is run again. *)
(* A thread at "pushed" stands between the push_block and the second scan. *)
(***************************************************************************)
MaxFreshAllocs == 3

\* an allocate call taken in one step
FreshAllocate(t) ==
  /\ mq.prod[t].pc = "idle"
  /\ Allocate(t, MediumSizes, {DEFAULT_ALIGNMENT}, {0}, MaxFreshAllocs)

\* the first scan finds nothing, the OS grants the chunk, the mask is not
\* empty and the chunk is pushed
FreshPush(t) ==
  /\ Running
  /\ mq.prod[t].pc = "idle"
  /\ user.nalloc < MaxFreshAllocs
  /\ \E size \in MediumSizes :
     \E k \in { order_from_size(size + NOT_ALIGN_HEADER_BYTES) } :
     \E first \in { scan_orders(medium, k, k) } :
     \E m1 \in { request_new_chunk(first.m, k, new_range(os)) } :
       /\ first.blk = NULL
       /\ os_can_map(os, size_from_order(k))
       /\ m1.mask # {}
       /\ medium' = push_block(m1, << new_range(os), 0 >>, k)
       /\ os' = allocate_tracked(os, size_from_order(k), 0)
       /\ mq' = [mq EXCEPT !.prod[t] = [pc |-> "pushed", tail |-> 0,
                                        block |-> << new_range(os), 0 >>, order |-> k]]
  /\ user' = [user EXCEPT !.nalloc = @ + 1]
  /\ ret' = [NoCall EXCEPT !.op = "push"]
  /\ UNCHANGED << debug, small, tls, large, huge, mem, pool >>

\* the second scan and the rest of the call: the block found, or
\* std::bad_alloc when every list from the wanted order up is empty again
FreshRescan(t) ==
  /\ Running
  /\ mq.prod[t].pc = "pushed"
  /\ \E size \in MediumSizes, nothrow \in BOOLEAN :
     \E k \in { mq.prod[t].order } \cap { order_from_size(size + NOT_ALIGN_HEADER_BYTES) } :
     \E second \in { scan_orders(medium, k, k) } :
       /\ medium' = second.m
       /\ IF second.blk = NULL
            THEN /\ ret' = [NoCall EXCEPT !.op = "allocate", !.out = "bad_alloc", !.s = size,
                                          !.a = DEFAULT_ALIGNMENT, !.nothrow = nothrow,
                                          !.owner = OWNER_MEDIUM]
                 /\ UNCHANGED << mem, user >>
            ELSE \E b \in { second.blk } :
                 \E p \in { << b[1], b[2] * MiB + MediumMemoryHeaderBytes
                                      + NOT_ALIGN_HEADER_BYTES >> } :
                 \E rec \in { [id |-> fresh_id(user.live), p |-> p, s |-> size,
                               owner |-> OWNER_MEDIUM, blk |-> b, lo |-> b[2] * MiB,
                               hi |-> b[2] * MiB + size_from_order(k)] } :
                   /\ mem' = [mem EXCEPT !.route =
                                [x \in (DOMAIN @) \cup {p} |->
                                   IF x = p THEN [owner_type |-> OWNER_MEDIUM,
                                                  raw |-> << b[1], b[2] * MiB >>]
                                   ELSE @[x]]]
                   /\ user' = [user EXCEPT !.live = @ \cup {rec},
                                           !.freed = { f \in @ : ~Overlap(f, rec) }]
                   /\ ret' = [op |-> "allocate", out |-> "ptr", p |-> p, s |-> size,
                              a |-> DEFAULT_ALIGNMENT, nothrow |-> nothrow, refused |-> FALSE,
                              owner |-> OWNER_MEDIUM, blk |-> b, rec |-> rec]
  /\ mq' = [mq EXCEPT !.prod[t] = IdleProducer]
  /\ UNCHANGED << debug, os, small, tls, large, huge, pool >>

\* a deallocate call taken in one step
FreshDeallocate(t) ==
  /\ mq.prod[t].pc = "idle"
  /\ Deallocate(t, FALSE)

NextFresh ==
  \/ \E t \in Threads : FreshAllocate(t)
  \/ \E t \in Threads : FreshPush(t)
  \/ \E t \in Threads : FreshRescan(t)
  \/ \E t \in Threads : FreshDeallocate(t)
  \/ WorkerStep
  \/ WorkerExit

SpecFresh == InitBuild(FALSE) /\ [][NextFresh]_vars

(***************************************************************************)
(* C31.  A medium allocate ends in std::bad_alloc only when the OS refused *)
(* the new chunk; a call that obtained its chunk returns a block whose     *)
(* header records the size of the wanted order.                            *)
(***************************************************************************)
C31_BadAllocOnlyOnRefusal ==
  (ret.op = "allocate" /\ ret.owner = OWNER_MEDIUM) =>
    /\ ret.out \in {"bad_alloc", "null"} => ret.refused
    /\ ret.out = "ptr" =>
         medium_header(medium, ret.blk).block_size
           = size_from_order(order_from_size(ret.s + NOT_ALIGN_HEADER_BYTES))

(***************************************************************************)
(* The chunk refill of SmallMemoryManager::allocate, step by step.  A      *)
(* thread at "split" has recorded and split its chunk, at "cas" it holds a *)
(* snapshot of the bucket head and has pointed the last block's next at    *)
(* the snapshot's pointer, at "linked" its compare-and-swap has succeeded. *)
(* node is block 0 of the chunk, snap the snapshot.                        *)
(***************************************************************************)
MaxRefillAllocs == 3

\* the {pointer, tag} value of a bucket head
head_value(bucket) ==
  [pointer |-> IF bucket.list = << >> THEN NULL ELSE list_head(bucket.list), tag |-> bucket.tag]

\* the blocks a next word equal to pointer leads to: the bucket's list from
\* that block on
RECURSIVE small_chain(_, _)
small_chain(list, pointer) ==
  IF pointer = NULL \/ list = << >> THEN << >>
  ELSE IF list_head(list) = pointer THEN list
  ELSE small_chain(list_pop(list), pointer)

\* the one request size of the refill model and its size class
RefillSize == CHOOSE size \in FlushSizes : TRUE

RefillIndex == calculate_bucket_index(RefillSize + NOT_ALIGN_HEADER_BYTES)

RefillBlocks == small_chunk_size(RefillIndex) \div small_block_bytes(RefillIndex)

\* calls taken in one step
RefillAllocate(t) ==
  /\ small.walk[t].pc = "idle"
  /\ Allocate(t, FlushSizes, {DEFAULT_ALIGNMENT}, {0}, MaxRefillAllocs)

RefillDeallocate(t) ==
  /\ small.walk[t].pc = "idle"
  /\ Deallocate(t, FALSE)

RefillFlush(t) ==
  /\ small.walk[t].pc = "idle"
  /\ FlushTls(t)

\* stages 1 to 3: both buckets are empty, the OS grants the chunk, the chunk
\* is recorded under chunk_mutex and split
RefillMap(t) ==
  /\ Running
  /\ small.walk[t].pc = "idle"
  /\ user.nalloc < MaxRefillAllocs
  /\ tls_bucket(tls[t], RefillIndex) = << >>
  /\ global_bucket(small, RefillIndex).list = << >>
  /\ os_can_map(os, small_chunk_size(RefillIndex))
  /\ \E r \in { new_range(os) } :
       small' = [small EXCEPT
                   !.chunks = Append(@, << r, small_chunk_size(RefillIndex) >>),
                   !.index  = [x \in (DOMAIN @) \cup {r} |->
                                 IF x = r THEN RefillIndex ELSE @[x]],
                   !.walk[t] = [pc |-> "split", node |-> << r, 0 >>,
                                snap |-> head_value(EmptyGlobalBucket)]]
  /\ os' = allocate_tracked(os, small_chunk_size(RefillIndex), 0)
  /\ user' = [user EXCEPT !.nalloc = @ + 1]
  /\ ret' = [NoCall EXCEPT !.op = "refill_map"]
  /\ UNCHANGED << debug, tls, medium, mq, large, huge, mem, pool >>

\* head_snapshot = bucket.head.load(); previous_block->next = its pointer
RefillLoad(t) ==
  /\ Running
  /\ small.walk[t].pc = "split"
  /\ small' = [small EXCEPT !.walk[t].pc = "cas",
                            !.walk[t].snap = head_value(global_bucket(small, RefillIndex))]
  /\ ret' = [NoCall EXCEPT !.op = "refill_load"]
  /\ UNCHANGED << debug, os, tls, medium, mq, large, huge, mem, pool, user >>

\* the head update for the snapshot snap, taken without comparing the head
RefillCasBlind(t) ==
  /\ Running
  /\ small.walk[t].pc = "cas"
  /\ \E w \in { small.walk[t] } :
     \E cur \in { global_bucket(small, RefillIndex) } :
       small' = [set_global_bucket(small, RefillIndex,
                    [list |-> << [r |-> w.node[1], lo |-> 1, hi |-> RefillBlocks - 1] >>
                                \o small_chain(cur.list, w.snap.pointer),
                     tag  |-> w.snap.tag + 1])
                   EXCEPT !.walk[t].pc = "linked"]
  /\ ret' = [NoCall EXCEPT !.op = "refill_cas"]
  /\ UNCHANGED << debug, os, tls, medium, mq, large, huge, mem, pool, user >>

\* bucket.head.compare_exchange_weak(head_snapshot, new_snapshot): on a match
\* blocks 1..n-1 become the front of the list; on a mismatch the snapshot is
\* replaced by the head and the next word is pointed at it again
RefillCas(t) ==
  /\ Running
  /\ small.walk[t].pc = "cas"
  /\ \E w \in { small.walk[t] } :
     \E cur \in { global_bucket(small, RefillIndex) } :
       small' = IF head_value(cur) = w.snap
                  THEN [set_global_bucket(small, RefillIndex,
                          [list |-> << [r |-> w.node[1], lo |-> 1, hi |-> RefillBlocks - 1] >>
                                      \o small_chain(cur.list, w.snap.pointer),
                           tag  |-> w.snap.tag + 1])
                         EXCEPT !.walk[t].pc = "linked"]
                  ELSE [small EXCEPT !.walk[t].snap = head_value(cur)]
  /\ ret' = [NoCall EXCEPT !.op = "refill_cas"]
  /\ UNCHANGED << debug, os, tls, medium, mq, large, huge, mem, pool, user >>

\* the first block is marked allocated and returned through the pool
RefillReturn(t) ==
  /\ Running
  /\ small.walk[t].pc = "linked"
  /\ \E nothrow \in BOOLEAN :
     \E b \in { small.walk[t].node } :
     \E p \in { << b[1], SmallMemoryHeaderBytes + NOT_ALIGN_HEADER_BYTES >> } :
     \E rec \in { [id |-> fresh_id(user.live), p |-> p, s |-> RefillSize, owner |-> OWNER_SMALL,
                   blk |-> b, lo |-> 0, hi |-> small_block_bytes(RefillIndex)] } :
       /\ small' = [set_small_header(small, b,
                      [FreshSmallHeader EXCEPT !.is_free = FALSE, !.next = << b[1], 1 >>])
                     EXCEPT !.walk[t] = IdleWalk]
       /\ mem' = [mem EXCEPT !.route =
                    [x \in (DOMAIN @) \cup {p} |->
                       IF x = p THEN [owner_type |-> OWNER_SMALL, raw |-> << b[1], 0 >>]
                       ELSE @[x]]]
       /\ user' = [user EXCEPT !.live = @ \cup {rec},
                               !.freed = { f \in @ : ~Overlap(f, rec) }]
       /\ ret' = [op |-> "allocate", out |-> "ptr", p |-> p, s |-> RefillSize,
                  a |-> DEFAULT_ALIGNMENT, nothrow |-> nothrow, refused |-> FALSE,
                  owner |-> OWNER_SMALL, blk |-> b, rec |-> rec]
  /\ UNCHANGED << debug, os, tls, medium, mq, large, huge, pool >>

NextRefill ==
  \/ \E t \in Threads : RefillAllocate(t)
  \/ \E t \in Threads : RefillDeallocate(t)
  \/ \E t \in Threads : RefillFlush(t)
  \/ \E t \in Threads : RefillMap(t)
  \/ \E t \in Threads : RefillLoad(t)
  \/ \E t \in Threads : RefillCas(t)
  \/ \E t \in Threads : RefillReturn(t)

SpecRefill == InitBuild(FALSE) /\ [][NextRefill]_vars

\* thread t's compare-and-swap of the refill succeeds in this step
RefillLinks(t) == small.walk[t].pc = "cas" /\ small'.walk[t].pc = "linked"

\* thread t's refilling allocate returns in this step
RefillReturns(t) == small.walk[t].pc = "linked" /\ small'.walk[t].pc = "idle"

\* the blocks 1..n-1 of the chunk whose block 0 is b
RefillSegment(b) == << [r |-> b[1], lo |-> 1, hi |-> RefillBlocks - 1] >>

FlushLinks(t) == small.walk[t].pc \in {"idle", "scan"} /\ small'.walk[t].pc = "walk"

FlushClears(t) == small.walk[t].pc = "walk" /\ small'.walk[t] # small.walk[t]

FlushReturns(t) == ret'.op = "flush_link" /\ small.walk[t].pc = "scan" /\ small'.walk[t] = IdleWalk

\* the blocks whose in_tls flag differs between the two states of a step
FlagChanged ==
  { b \in DOMAIN small'.hdr : small_header(small', b).in_tls # small_header(small, b).in_tls }

(***************************************************************************)
(* C33.  A flush by thread t puts the chain of each filled bucket of t in  *)
(* front of the global bucket of the same class, touches no bucket of      *)
(* another thread, changes the in_tls flag of no block outside the chain   *)
(* it moved, and returns with t's buckets empty and t's counter at 0.      *)
(***************************************************************************)
C33_FlushMovesOwnBlocksOnly ==
  [][\A t \in Threads :
       /\ FlushLinks(t) =>
            /\ \E i \in DOMAIN tls[t].buckets :
                 /\ list_blocks(tls[t].buckets[i]) = small'.walk[t].moved
                 /\ global_bucket(small', i).list
                      = tls[t].buckets[i] \o global_bucket(small, i).list
                 /\ tls_bucket(tls'[t], i) = << >>
            /\ \A u \in Threads \ {t} : tls'[u] = tls[u]
            /\ FlagChanged = {}
       /\ FlushClears(t) =>
            /\ FlagChanged \subseteq small.walk[t].moved
            /\ tls' = tls
       /\ FlushReturns(t) =>
            /\ \A i \in DOMAIN tls'[t].buckets : tls'[t].buckets[i] = << >>
            /\ tls'[t].deallocation_counter = 0
            /\ \A u \in Threads \ {t} : tls'[u] = tls[u]
  ]_vars

\* the tagged heads of the pool: the medium free-list heads by order and the
\* small global bucket heads by size class
Orders == 0 .. LEVEL_COUNT - 1

SmallClasses(s, caches) ==
  (DOMAIN s.global) \cup UNION { DOMAIN caches[t].buckets : t \in DOMAIN caches }

\* one update of a head: the tag is the old tag plus one
Bumped(old, new) == new.tag = old.tag + 1

\* a head between two states: unchanged, or changed with a larger tag
Advanced(old, new) == new = old \/ new.tag > old.tag

\* every head update the state allows, taken alone, adds one to the tag
OneUpdateAddsOne ==
  /\ \A k \in Orders :
       /\ medium.fl[k].pointer # NULL => Bumped(medium.fl[k], pop_block(medium, k).m.fl[k])
       /\ medium.fl[k].pointer = NULL => pop_block(medium, k).m.fl[k] = medium.fl[k]
       /\ \A x \in DOMAIN medium.hdr :
            /\ Bumped(medium.fl[k], push_block(medium, x, k).fl[k])
            /\ try_remove_from_freelist(medium, x, k).ok = "true" =>
                 Bumped(medium.fl[k], try_remove_from_freelist(medium, x, k).m.fl[k])
            /\ try_remove_from_freelist(medium, x, k).ok # "true" =>
                 try_remove_from_freelist(medium, x, k).m.fl[k] = medium.fl[k]
  /\ \A i \in SmallClasses(small, tls) :
       /\ Bumped(global_bucket(small, i), global_bucket(small_refill(small, i, new_range(os)).s, i))
       /\ \A t \in Threads :
            /\ Advanced(global_bucket(small, i),
                        global_bucket(small_take(small, tls[t], i).s, i))
            /\ (tls_bucket(tls[t], i) = << >> /\ global_bucket(small, i).list # << >>) =>
                 Bumped(global_bucket(small, i), global_bucket(small_take(small, tls[t], i).s, i))
            /\ tls_bucket(tls[t], i) # << >> =>
                 Bumped(global_bucket(small, i), global_bucket(small_flush(small, tls[t]).s, i))

(***************************************************************************)
(* C34.  While the pool is running every update of a small global bucket   *)
(* head or of a medium free-list head adds one to the head's tag, so       *)
(* across any step a head is unchanged or has a larger tag: a {pointer,    *)
(* tag} value that has been replaced never comes back, and a compare-and-  *)
(* swap against a replaced value fails.                                    *)
(***************************************************************************)
C34_TagsGrowByOne ==
  [][(pool.state = "running" /\ pool'.state = "running") =>
       /\ OneUpdateAddsOne
       /\ \A k \in Orders : Advanced(medium.fl[k], medium'.fl[k])
       /\ \A i \in SmallClasses(small, tls) \cup SmallClasses(small', tls') :
            Advanced(global_bucket(small, i), global_bucket(small', i))
  ]_vars

\* a block is the head of a medium list for the second time, under a new tag
C34_Witness ==
  /\ pool.state = "running"
  /\ \E k \in Orders : medium.fl[k].pointer # NULL /\ medium.fl[k].tag >= 3

(***************************************************************************)
(* The size classes.  calculate_bucket_index only compares its argument    *)
(* with entries of BUCKET_SIZES, so its result is decided by where the     *)
(* argument lies among the entries: 1, every entry and every entry plus    *)
(* one cover each such place from 1 byte to 1 MiB.  SpecClass requests     *)
(* these values, and the values that reach them once the routing header    *)
(* is added, and serves them from a fresh chunk, from the thread's bucket  *)
(* and from the global bucket.                                             *)
(***************************************************************************)
MaxClassAllocs == 2

ClassCallers == { 1 }

ClassEdges ==
  { v \in {1} \cup UNION { { BUCKET_SIZES[i], BUCKET_SIZES[i] + 1 } : i \in 1 .. BUCKET_COUNT } :
      v <= SMALL_BLOCK_MAX_SIZE }

ClassEdgeSizes ==
  ClassEdges \cup { v - NOT_ALIGN_HEADER_BYTES : v \in { e \in ClassEdges : e > NOT_ALIGN_HEADER_BYTES } }

NextClass ==
  \/ \E t \in ClassCallers :
       Allocate(t, ClassEdgeSizes, {DEFAULT_ALIGNMENT}, {0}, MaxClassAllocs)
  \/ \E t \in ClassCallers : Deallocate(t, FALSE)
  \/ \E t \in ClassCallers : FlushTls(t)

SpecClass == InitBuild(FALSE) /\ [][NextClass]_vars

\* index names the smallest entry of the table that is at least bytes
SmallestClass(index, bytes) ==
  /\ index \in 0 .. BUCKET_COUNT - 1
  /\ BUCKET_SIZES[index + 1] >= bytes
  /\ \A j \in 1 .. index : BUCKET_SIZES[j] < bytes

\* block_size in the header of a small block: written at the refill of its chunk
small_payload(s, b) == BUCKET_SIZES[small_index_of(s, b[1]) + 1]

(***************************************************************************)
(* C35.  A block the small tier returns for n bytes records as its payload *)
(* size the smallest table entry that is at least n + 16, whichever list   *)
(* served it; and calculate_bucket_index names the smallest entry that is  *)
(* at least its argument, for arguments from 1 byte to 1 MiB.              *)
(***************************************************************************)
C35_SmallestClassServes ==
  ret.op = "allocate" =>
    /\ (ret.out = "ptr" /\ ret.owner = OWNER_SMALL) =>
         /\ small_payload(small, ret.blk) >= ret.s + NOT_ALIGN_HEADER_BYTES
         /\ \A j \in 1 .. BUCKET_COUNT :
              BUCKET_SIZES[j] >= ret.s + NOT_ALIGN_HEADER_BYTES =>
                BUCKET_SIZES[j] >= small_payload(small, ret.blk)
    /\ (ret.s >= 1 /\ ret.s <= SMALL_BLOCK_MAX_SIZE) =>
         SmallestClass(calculate_bucket_index(ret.s), ret.s)

\* a request that fits its class exactly was served from the global bucket,
\* where a flush had put the block
C35_Witness ==
  /\ ret.op = "allocate" /\ ret.out = "ptr" /\ ret.owner = OWNER_SMALL
  /\ \E i \in 1 .. BUCKET_COUNT :
       /\ BUCKET_SIZES[i] = ret.s + NOT_ALIGN_HEADER_BYTES
       /\ global_bucket(small, i - 1).tag = 3
       /\ small_payload(small, ret.blk) = BUCKET_SIZES[i]

\* the order whose list the scan of MediumMemoryManager::allocate pops for a
\* request of order want: the lowest order from want up with a head, or
\* LEVEL_COUNT when every list is empty
popped_order(m, want) ==
  IF \E j \in want .. LEVEL_COUNT - 1 : m.fl[j].pointer # NULL
    THEN CHOOSE j \in want .. LEVEL_COUNT - 1 :
           /\ m.fl[j].pointer # NULL
           /\ \A i \in want .. j - 1 : m.fl[i].pointer = NULL
    ELSE LEVEL_COUNT

\* the right half the split of block b makes at order k
right_half(b, k) == << b[1], b[2] + size_from_order(k) \div MiB >>

\* this step is a medium allocate of order want that pops order from and splits
SplitStep(want, from) ==
  /\ ret'.op = "allocate" /\ ret'.out = "ptr" /\ ret'.owner = OWNER_MEDIUM
  /\ order_from_size(ret'.s + NOT_ALIGN_HEADER_BYTES) = want
  /\ popped_order(medium, want) = from
  /\ want < from /\ from < LEVEL_COUNT

(***************************************************************************)
(* C36.  A medium allocate of order t that pops a block b of order j > t   *)
(* returns b at order t, pushes one right half on the list of each order   *)
(* j-1, ..., t, and the pieces are the popped block: they lie in its chunk *)
(* and their sizes add up to the size the popped header recorded.          *)
(***************************************************************************)
C36_SplitTilesPoppedBlock ==
  [][\A want \in Orders : \A from \in Orders :
       SplitStep(want, from) =>
         LET b == medium.fl[from].pointer
         IN  /\ ret'.blk = b
             /\ medium_header(medium', b).block_size = size_from_order(want)
             /\ ~medium_header(medium', b).is_free
             /\ Bumped(medium.fl[from], medium'.fl[from])
             /\ \A k \in want .. from - 1 :
                  /\ medium'.fl[k].pointer = right_half(b, k)
                  /\ Bumped(medium.fl[k], medium'.fl[k])
                  /\ medium_header(medium', right_half(b, k)).block_size = size_from_order(k)
                  /\ medium_header(medium', right_half(b, k)).is_free
             /\ medium_header(medium, b).block_size = size_from_order(from)
             /\ medium_header(medium, b).is_free
             /\ AlignedInChunk(b, from)
             /\ ~medium'.fault
  ]_vars

(***************************************************************************)
(* The deallocation counter.  SpecCounter lets one thread make enough      *)
(* small deallocate calls for its counter to reach the flush threshold.    *)
(* The thread holds at most MaxCounterLive pointers at a time, the OS      *)
(* grants what it is asked for, and the thread calls the flush itself only *)
(* during its first MaxCounterFlushAllocs requests.                        *)
(***************************************************************************)
MaxCounterAllocs == 520

CounterSizes == { 64 }

MaxCounterLive == 1

MaxCounterFlushAllocs == 3

CounterCallers == { 1 }

CounterAllocate(t) ==
  /\ Running
  /\ user.nalloc < MaxCounterAllocs
  /\ Cardinality(user.live) < MaxCounterLive
  /\ \E size \in CounterSizes :
     \E g \in { pool_allocate(State, t, size, DEFAULT_ALIGNMENT, FALSE, TRUE, 0) } :
     \E rec \in { [id |-> fresh_id(user.live), p |-> g.p, s |-> size, owner |-> g.owner,
                   blk |-> g.blk, lo |-> g.lo, hi |-> g.hi] } :
       /\ g.out = "ptr"
       /\ Commit(g.st)
       /\ user' = [user EXCEPT !.live = @ \cup {rec}, !.nalloc = @ + 1]
       /\ ret' = [op |-> "allocate", out |-> g.out, p |-> g.p, s |-> size,
                  a |-> DEFAULT_ALIGNMENT, nothrow |-> FALSE, refused |-> FALSE,
                  owner |-> g.owner, blk |-> g.blk, rec |-> rec]
  /\ UNCHANGED << debug, pool >>

CounterFlush(t) ==
  /\ user.nalloc < MaxCounterFlushAllocs
  /\ FlushTls(t)

NextCounter ==
  \/ \E t \in CounterCallers : CounterAllocate(t)
  \/ \E t \in CounterCallers : Deallocate(t, FALSE)
  \/ \E t \in CounterCallers : CounterFlush(t)

SpecCounter == InitBuild(FALSE) /\ [][NextCounter]_vars

\* the number of blocks linked in the buckets of a thread's cache
RECURSIVE parked_count(_, _)
parked_count(c, classes) ==
  IF classes = {} THEN 0
  ELSE LET i == CHOOSE i \in classes : TRUE
       IN  Cardinality(list_blocks(c.buckets[i])) + parked_count(c, classes \ {i})

RECURSIVE active_count(_, _)
active_count(ranges, r) ==
  IF ranges = << >> THEN 0
  ELSE (IF Head(ranges) = r THEN 1 ELSE 0) + active_count(Tail(ranges), r)

huge_ranges(h) == [i \in 1 .. Len(h.active) |-> h.active[i][1]]

LiveRanges(live, owner) == { rec.blk[1] : rec \in { x \in live : x.owner = owner } }

\* every live block of the two tiers is on its list once, nothing else is
ActiveIsLive(l, h, o, live) ==
  \A r \in 1 .. Len(o.ranges) :
    /\ active_count(l.active, r) = (IF r \in LiveRanges(live, OWNER_LARGE) THEN 1 ELSE 0)
    /\ active_count(huge_ranges(h), r) = (IF r \in LiveRanges(live, OWNER_HUGE) THEN 1 ELSE 0)
    /\ \A i \in 1 .. Len(h.active) : h.active[i][1] = r => h.active[i][2] = o.ranges[r].size

\* range r goes back to the OS in this step, once, with its mapped size
ReleasedOnce(r) ==
  /\ os.ranges[r].mapped /\ os.ranges[r].rel = 0
  /\ ~os'.ranges[r].mapped /\ os'.ranges[r].rel = 1
  /\ os.used_bytes - os'.used_bytes >= os.ranges[r].size

LargeOrHuge == { OWNER_LARGE, OWNER_HUGE }

\* C38: while the pool runs, the active lists of the large and the huge
\* tier hold exactly the live blocks of their tier, each once and, for the
\* huge tier, with the byte count of its range; a deallocate of such a
\* block returns its range to the OS once with the byte count it was mapped
\* with, leaving the other ranges of the two tiers alone; release_all
\* returns every block still listed once and empties both lists.
C38_ActiveBlocksReleasedOnce ==
  [][ /\ (Running /\ pool'.state = "running") => ActiveIsLive(large', huge', os', user'.live)
      /\ (ret'.op = "deallocate" /\ ret'.rec.owner \in LargeOrHuge) =>
           /\ ReleasedOnce(ret'.rec.blk[1])
           /\ os.used_bytes - os'.used_bytes = os.ranges[ret'.rec.blk[1]].size
           /\ \A r \in LiveRanges(user'.live, OWNER_LARGE) \cup LiveRanges(user'.live, OWNER_HUGE) :
                os'.ranges[r] = os.ranges[r]
      /\ ret'.op = "destroy" =>
           /\ \A r \in LiveRanges(user.live, OWNER_LARGE) \cup LiveRanges(user.live, OWNER_HUGE) :
                ReleasedOnce(r)
           /\ large'.active = << >> /\ huge'.active = << >>
           /\ \A r \in 1 .. Len(os'.ranges) : os'.ranges[r].rel <= 1 ]_vars

\* the pool was destroyed while a huge block was live, after a large block
\* had been deallocated
C38_Witness ==
  /\ ret.op = "destroy"
  /\ \E x \in user.live : x.owner = OWNER_HUGE
  /\ \E r \in DOMAIN large.hdr : large.hdr[r].magic = NO_MAGIC /\ os.ranges[r].rel = 1


(***************************************************************************)
(* A deallocate that meets a header whose magic word is not its tier's.    *)
(***************************************************************************)
\* the deallocate of the tier, called on block b, gets as far as its magic
\* check and finds another word there
MagicMismatch(owner, b) ==
  IF owner = OWNER_SMALL
    THEN LET h == small_header(small, b)
         IN  ~h.is_free /\ h.in_tls = 0 /\ h.magic # SMALL_MAGIC
  ELSE IF owner = OWNER_MEDIUM
    THEN LET h == medium_header(medium, b)
         IN  ~h.is_free /\ h.magic # MEDIUM_MAGIC
  ELSE IF owner = OWNER_LARGE
    THEN large.hdr[b[1]].magic # LARGE_MAGIC
  ELSE owner = OWNER_HUGE /\ huge.hdr[b[1]].magic # HUGE_MAGIC

\* the owner of a live pointer writes in front of its payload and clears
\* the magic word of the header of its block
OverwriteMagic ==
  /\ Running
  /\ \E rec \in user.live :
       \/ /\ rec.owner = OWNER_SMALL
          /\ small_header(small, rec.blk).magic = SMALL_MAGIC
          /\ small' = set_small_header(small, rec.blk,
                         [small_header(small, rec.blk) EXCEPT !.magic = NO_MAGIC])
          /\ UNCHANGED << medium, large, huge >>
       \/ /\ rec.owner = OWNER_MEDIUM
          /\ medium_header(medium, rec.blk).magic = MEDIUM_MAGIC
          /\ medium' = set_medium_header(medium, rec.blk,
                          [medium_header(medium, rec.blk) EXCEPT !.magic = NO_MAGIC])
          /\ UNCHANGED << small, large, huge >>
       \/ /\ rec.owner = OWNER_LARGE
          /\ large.hdr[rec.blk[1]].magic = LARGE_MAGIC
          /\ large' = [large EXCEPT !.hdr[rec.blk[1]].magic = NO_MAGIC]
          /\ UNCHANGED << small, medium, huge >>
       \/ /\ rec.owner = OWNER_HUGE
          /\ huge.hdr[rec.blk[1]].magic = HUGE_MAGIC
          /\ huge' = [huge EXCEPT !.hdr[rec.blk[1]].magic = NO_MAGIC]
          /\ UNCHANGED << small, medium, large >>
  /\ ret' = [NoCall EXCEPT !.op = "write"]
  /\ UNCHANGED << debug, os, tls, mq, mem, pool, user >>

\* SpecMagic: callers of the four tiers that may clear the magic word of a
\* block they hold before they deallocate it
MaxMagicAllocs == 2

MagicSizes == { 1024, 1 * MiB, MEDIUM_BLOCK_MAX_SIZE - 15, HUGE_BLOCK_THRESHOLD - 15 }

NextMagic ==
  \/ \E t \in Threads : Allocate(t, MagicSizes, { DEFAULT_ALIGNMENT }, {0}, MaxMagicAllocs)
  \/ \E t \in Threads : Deallocate(t, FALSE)
  \/ OverwriteMagic
  \/ WorkerStep
  \/ WorkerExit

SpecMagic == InitBuild(FALSE) /\ [][NextMagic]_vars

\* this step is a deallocate that found a magic mismatch
SkippedFree ==
  /\ ret'.op \in { "deallocate", "again" }
  /\ ret'.out = "tier"
  /\ ret'.blk # NULL
  /\ MagicMismatch(ret'.owner, ret'.blk)

\* C39: a deallocate that finds a magic word other than its tier's leaves
\* the tiers as they were: no TLS bucket, free list or merge queue gains
\* the block, nothing goes back to the OS, and every header, the is-free
\* flag of the block included, keeps its value.
C39_MismatchLeavesTierAlone ==
  [][ SkippedFree => /\ small' = small /\ tls' = tls
                     /\ medium' = medium /\ mq' = mq
                     /\ large' = large /\ huge' = huge
                     /\ os' = os ]_vars


(***************************************************************************)
(* SystemAllocator (memory_allocators.hpp).  In SpecSystem the allocator   *)
(* object is a SystemAllocator and pool holds its members: the flag        *)
(* leak_detection_enabled_, the map pointer_map_ from raw pointer to size, *)
(* and tracked, the pointers in the allocation map of the MemoryTracker.   *)
(* The class has no lock around pointer_map_, so the calls are those of    *)
(* one caller at a time.  A pointer is << range, 0 >>.                     *)
(***************************************************************************)
MaxSystemAllocs == 3

SystemSizes == { 0, 4096, 65536 }

InitSystem ==
  /\ debug = FALSE
  /\ os = [ranges |-> << >>, used_bytes |-> 0, net_ops |-> 0]
  /\ small = [chunks |-> << >>, index |-> << >>, hdr |-> << >>, global |-> << >>,
              peer |-> NoPeer, walk |-> [t \in Threads |-> IdleWalk]]
  /\ tls = [t \in Threads |-> [buckets |-> << >>, deallocation_counter |-> 0]]
  /\ medium = [ chunks |-> << >>, hdr |-> << >>, bytes |-> << >>, mask |-> {}, fault |-> FALSE,
                fl |-> [k \in 0 .. LEVEL_COUNT - 1 |-> [pointer |-> NULL, tag |-> 0]] ]
  /\ mq = [requests |-> << >>, head |-> 0, tail |-> 0, active |-> FALSE, workers |-> 0,
           hung |-> FALSE, prod |-> [t \in Threads |-> IdleProducer], wk |-> NoWorker,
           pending |-> {}]
  /\ large = [active |-> << >>, hdr |-> << >>]
  /\ huge = [active |-> << >>, hdr |-> << >>]
  /\ mem = [route |-> << >>, env |-> << >>]
  /\ pool = [is_destructing |-> FALSE, state |-> "system",
             leak_detection_enabled_ |-> FALSE, pointer_map_ |-> << >>, tracked |-> {}]
  /\ user = [live |-> {}, freed |-> {}, nalloc |-> 0, nagain |-> 0, nwrites |-> 0]
  /\ ret = NoCall

\* SystemAllocator::allocate(size, alignof(max_align_t), .., nothrow); the OS
\* answers the mapping request with a range when grant
SystemAllocate ==
  /\ pool.state = "system"
  /\ user.nalloc < MaxSystemAllocs
  /\ \E size \in SystemSizes, nothrow \in BOOLEAN, grant \in BOOLEAN :
       LET r   == new_range(os)
           rec == [id |-> fresh_id(user.live), p |-> << r, 0 >>, s |-> size, owner |-> 0,
                   blk |-> << r, 0 >>, lo |-> 0, hi |-> size]
           out == IF size = 0 THEN "null"
                  ELSE IF grant /\ os_can_map(os, size) THEN "ptr"
                  ELSE IF nothrow THEN "null" ELSE "bad_alloc"
       IN  /\ os' = IF out = "ptr" THEN allocate_tracked(os, size, 0) ELSE os
           /\ pool' = IF out # "ptr" THEN pool
                      ELSE IF pool.leak_detection_enabled_
                        THEN [pool EXCEPT !.tracked = @ \cup { << r, 0 >> }]
                        ELSE [pool EXCEPT !.pointer_map_ =
                                [x \in (DOMAIN @) \cup { << r, 0 >> } |->
                                   IF x = << r, 0 >> THEN size ELSE @[x]]]
           /\ user' = IF out = "ptr"
                        THEN [user EXCEPT !.live = @ \cup {rec}, !.nalloc = @ + 1]
                        ELSE [user EXCEPT !.nalloc = @ + 1]
           /\ ret' = [NoCall EXCEPT !.op = "allocate", !.out = out, !.s = size,
                                    !.nothrow = nothrow,
                                    !.refused = (size # 0 /\ out # "ptr"),
                                    !.p = IF out = "ptr" THEN << r, 0 >> ELSE NULL,
                                    !.rec = IF out = "ptr" THEN rec ELSE NoRec]
  /\ UNCHANGED << debug, small, tls, medium, mq, large, huge, mem >>

\* SystemAllocator::deallocate(pointer) on a pointer the caller holds
SystemDeallocate ==
  /\ pool.state = "system"
  /\ \E rec \in user.live :
       LET known == rec.p \in DOMAIN pool.pointer_map_
           p1    == IF pool.leak_detection_enabled_
                      THEN [pool EXCEPT !.tracked = @ \ { rec.p }] ELSE pool
       IN  /\ pool' = IF known
                        THEN [p1 EXCEPT !.pointer_map_ =
                                [x \in (DOMAIN @) \ { rec.p } |-> @[x]]]
                        ELSE p1
           /\ os' = IF known THEN deallocate_tracked(os, rec.p[1], pool.pointer_map_[rec.p])
                    ELSE os
           /\ user' = [user EXCEPT !.live = @ \ {rec}]
           /\ ret' = [NoCall EXCEPT !.op = "deallocate",
                                    !.out = IF known THEN "released" ELSE "unknown",
                                    !.p = rec.p, !.rec = rec]
  /\ UNCHANGED << debug, small, tls, medium, mq, large, huge, mem >>

\* SystemAllocator::enable_leak_detection
EnableLeakDetection ==
  /\ pool.state = "system"
  /\ ~pool.leak_detection_enabled_
  /\ pool' = [pool EXCEPT !.leak_detection_enabled_ = TRUE]
  /\ ret' = [NoCall EXCEPT !.op = "enable"]
  /\ UNCHANGED << debug, os, small, tls, medium, mq, large, huge, mem, user >>

NextSystem ==
  \/ SystemAllocate
  \/ SystemDeallocate
  \/ EnableLeakDetection

SpecSystem == InitSystem /\ [][NextSystem]_vars

\* C40: a SystemAllocator deallocate of a live pointer that its allocate
\* returned gives the pointer's range back to the OS once, with the size it
\* was allocated with, whether leak detection was on or off when the
\* pointer was allocated.
C40_SystemDeallocateReleasesOnce ==
  [][ (pool.state = "system" /\ ret'.op = "deallocate") =>
        /\ os.ranges[ret'.p[1]].mapped /\ os.ranges[ret'.p[1]].rel = 0
        /\ ~os'.ranges[ret'.p[1]].mapped /\ os'.ranges[ret'.p[1]].rel = 1
        /\ os.used_bytes - os'.used_bytes = ret'.rec.s ]_vars

=============================================================================
